---- MODULE Spec2Model ----
(***************************************************************************)
(* A model of picolayer's gh-release pipeline:                             *)
(*   cli (args.rs, handlers.rs) -> install (installers/gh_release/mod.rs)  *)
(*   -> fetch_release (client.rs, through utils/retry.rs::retry_async)     *)
(*   -> select (selector.rs) -> verify (verifier.rs) -> extract            *)
(*   (extractor.rs).                                                       *)
(*                                                                         *)
(* Strings of the program are sequences of one-character strings, so that  *)
(* suffixes, case folding, trimming and lengths are computed, not assumed. *)
(* Errors are the anyhow messages of the source.                           *)
(***************************************************************************)
EXTENDS Integers, Sequences, FiniteSets, TLC

\* ------------------------------------------------------------------ bounds

\* largest --max-retries the retry specification explores
MaxRetries == 2
\* longest asset list a release holds
MaxAssets == 3
MaxReleases == 3

\* ----------------------------------------------------------------- strings

Repeat(c, n) == [i \in 1..n |-> c]

UpperChars == <<"A","B","C","D","E","F","G","H","I","J","K","L","M",
                "N","O","P","Q","R","S","T","U","V","W","X","Y","Z">>
LowerChars == <<"a","b","c","d","e","f","g","h","i","j","k","l","m",
                "n","o","p","q","r","s","t","u","v","w","x","y","z">>

\* char::to_ascii_lowercase
LowerOf ==
    [c \in {UpperChars[i] : i \in 1..Len(UpperChars)} |->
        LowerChars[CHOOSE i \in 1..Len(UpperChars) : UpperChars[i] = c]]

LowerChar(c) == IF c \in DOMAIN LowerOf THEN LowerOf[c] ELSE c

\* str::to_lowercase (ASCII text)
to_lowercase(s) == [i \in 1..Len(s) |-> LowerChar(s[i])]

\* str::eq_ignore_ascii_case
eq_ignore_ascii_case(a, b) == to_lowercase(a) = to_lowercase(b)

\* str::ends_with
ends_with(s, suf) ==
    /\ Len(suf) <= Len(s)
    /\ SubSeq(s, Len(s) - Len(suf) + 1, Len(s)) = suf

\* str::contains
contains(s, sub) ==
    \E i \in 1..(Len(s) - Len(sub) + 1) : SubSeq(s, i, i + Len(sub) - 1) = sub

\* str::strip_suffix(..).unwrap()
strip_suffix(s, suf) == SubSeq(s, 1, Len(s) - Len(suf))

IsWhitespace(c) == c \in {" ", "\t", "\n"}

RECURSIVE trim_start(_)
trim_start(s) ==
    IF s # <<>> /\ IsWhitespace(Head(s)) THEN trim_start(Tail(s)) ELSE s

RECURSIVE trim_end(_)
trim_end(s) ==
    IF s # <<>> /\ IsWhitespace(s[Len(s)])
    THEN trim_end(SubSeq(s, 1, Len(s) - 1))
    ELSE s

\* str::trim
trim(s) == trim_end(trim_start(s))

\* position of the first ':' of s, 0 when there is none
FirstColon(s) ==
    IF \E i \in 1..Len(s) : s[i] = ":"
    THEN CHOOSE i \in 1..Len(s) : s[i] = ":" /\ \A j \in 1..(i - 1) : s[j] # ":"
    ELSE 0

\* Option / Result values
None == [some |-> FALSE]
Some(v) == [some |-> TRUE, val |-> v]
Ok(v) == [ok |-> TRUE, val |-> v]
Err(e) == [ok |-> FALSE, err |-> e]

RECURSIVE Pow(_, _)
Pow(b, e) == IF e <= 0 THEN 1 ELSE b * Pow(b, e - 1)

\* ------------------------------------------------------------------- state

VARIABLES
    pc,            \* position of the invocation
    config,        \* GhReleaseConfig, built by the command line
    retry_config,  \* RetryConfig, built by the command line
    upstream,      \* the repository's releases as the remote would list them
    attempt,       \* retry_async: the loop variable
    last_error,    \* retry_async: last_error
    ret,           \* retry_async: the value it returned
    release,       \* install: the fetched release
    asset,         \* install: the selected asset
    dl,            \* verifier: the legs of the join in flight, leg -> body
    fs,            \* the install directory
    env,           \* the host: what utils::os reports
    log,           \* history: calls, warnings, sleeps, downloads, writes
    result         \* what install() (or the command line) returned

vars == <<pc, config, retry_config, upstream, attempt, last_error, ret,
          release, asset, dl, fs, env, log, result>>

\* ------------------------------------------------------------- asset names

\* the asset names the releases of the model hold
N_ARCHIVE == <<"t","o","o","l","-","l","i","n","u","x","-","a","m","d","6","4",".","t","a","r",".","g","z">>
N_ARCHIVE_SHA256 == <<"t","o","o","l","-","l","i","n","u","x","-","a","m","d","6","4",".","t","a","r",".","g","z",".","s","h","a","2","5","6">>
N_ARCHIVE_ASC == <<"t","o","o","l","-","l","i","n","u","x","-","a","m","d","6","4",".","t","a","r",".","g","z",".","a","s","c">>
N_CHECKSUMS == <<"c","h","e","c","k","s","u","m","s",".","t","x","t">>
N_RAW == <<"t","o","o","l","-","l","i","n","u","x","-","a","m","d","6","4">>
N_WINDOWS == <<"t","o","o","l","-","w","i","n","d","o","w","s","-","a","m","d","6","4",".","z","i","p">>
N_DARWIN == <<"t","o","o","l","-","d","a","r","w","i","n","-","a","r","m","6","4",".","t","a","r",".","g","z">>
N_README == <<"R","E","A","D","M","E",".","m","d">>
N_RAW_SIG == <<"t","o","o","l","-","l","i","n","u","x","-","a","m","d","6","4",".","S","I","G">>
N_SHA256SUMS == <<"S","H","A","2","5","6","S","U","M","S">>
N_TGZ == <<"t","o","o","l",".","T","G","Z">>
N_TXZ == <<"t","o","o","l",".","t","a","r",".","x","z">>
N_TBZ == <<"t","o","o","l",".","t","a","r",".","b","z","2">>
N_7Z == <<"t","o","o","l",".","7","z">>

\* extractor.rs / selector.rs: is_archive (called on the lowercase name)
ArchiveExtensions ==
    { <<".","t","a","r",".","g","z">>, <<".","t","g","z">>, <<".","t","a","r",".","x","z">>,
      <<".","z","i","p">>, <<".","t","a","r",".","b","z","2">>, <<".","7","z">> }

is_archive(filename) == \E e \in ArchiveExtensions : ends_with(filename, e)

\* selector.rs: is_platform_binary
PlatformTokens ==
    { <<"l","i","n","u","x">>, <<"d","a","r","w","i","n">>, <<"w","i","n","d","o","w","s">>,
      <<"x","8","6","_","6","4">>, <<"a","m","d","6","4">>, <<"a","r","m","6","4">>,
      <<"a","a","r","c","h","6","4">> }

is_platform_binary_exact_suffix(filename) ==
    LET lower == to_lowercase(filename)
        has_platform_info == \E t \in PlatformTokens : contains(lower, t)
        is_not_archive == ~is_archive(lower)
        is_not_signature ==
            ~ends_with(filename, <<".","s","i","g">>)
                /\ ~ends_with(filename, <<".","a","s","c">>)
    IN  has_platform_info /\ is_not_archive /\ is_not_signature

is_platform_binary(filename) ==
    LET lower == to_lowercase(filename)
        has_platform_info == \E t \in PlatformTokens : contains(lower, t)
        is_not_archive == ~is_archive(lower)
        is_not_signature ==
            ~ends_with(lower, <<".","s","i","g">>) /\ ~ends_with(lower, <<".","a","s","c">>)
    IN  has_platform_info /\ is_not_archive /\ is_not_signature

\* selector.rs: get_arch_regex. A pattern that is an alternation of literals
\* (character classes expanded) is kept as the set of its literals; it
\* matches a name that contains one of them. None for an unlisted
\* architecture.
get_arch_regex(arch) ==
    CASE arch = "x86_64" ->
            Some({ <<"A","m","d","6","4">>, <<"a","m","d","6","4">>, <<"-","x","6","4">>, <<"x","6","4">>,
                   <<"x","8","6","_","6","4">>, <<"x","8","6","-","6","4">> })
      [] arch = "aarch64" ->
            Some({ <<"A","r","m","6","4">>, <<"a","r","m","6","4">>, <<"A","R","M","6","4">>,
                   <<"A","a","r","c","h","6","4">>, <<"a","a","r","c","h","6","4">> })
      [] OTHER -> None

\* selector.rs: get_os_regex. The gh-release command runs on Debian-like
\* hosts only (handlers.rs), where std::env::consts::OS is "linux"; the arms
\* of the other operating systems are not reached and are left out.
get_os_regex(os) ==
    CASE os = "linux" -> Some({ <<"L","i","n","u","x">>, <<"l","i","n","u","x">> })
      [] OTHER -> None

\* Regex::is_match for such a pattern
is_match(alternatives, name) == \E a \in alternatives : contains(name, a)

\* the index of the first element of a list that satisfies a test, 0 if none
FirstIndex(seq, Test(_)) ==
    IF \E i \in DOMAIN seq : Test(seq[i])
    THEN CHOOSE i \in DOMAIN seq :
            Test(seq[i]) /\ \A j \in 1..(i - 1) : ~Test(seq[j])
    ELSE 0

select_by_arch_only(assets) ==
    LET arch_regex == get_arch_regex(env.arch)
        os_regex == get_os_regex(env.os)
    IN  IF ~arch_regex.some \/ ~os_regex.some THEN 0
        ELSE FirstIndex(assets, LAMBDA name :
                /\ is_match(arch_regex.val, name)
                /\ (is_archive(to_lowercase(name)) \/ is_platform_binary(name)))

\* selector.rs: select_by_platform
select_by_platform(assets) ==
    LET arch_regex == get_arch_regex(env.arch)
        os_regex == get_os_regex(env.os)
    IN  IF ~arch_regex.some \/ ~os_regex.some THEN 0
        ELSE FirstIndex(assets, LAMBDA name :
                /\ is_match(arch_regex.val, name)
                /\ is_match(os_regex.val, name)
                /\ (is_archive(to_lowercase(name)) \/ is_platform_binary(name)))

\* selector.rs: select_any_archive
select_any_archive(assets) ==
    FirstIndex(assets, LAMBDA name :
        is_archive(to_lowercase(name)) \/ is_platform_binary(name))

\* A filter is a regular expression; the model holds the invalid pattern and
\* patterns that are one literal, which match the names containing it.
InvalidPattern == [valid |-> FALSE, lit |-> <<"(">>]
Literal(text) == [valid |-> TRUE, lit |-> text]

\* the index of the last element of a list that satisfies a test, 0 if none
LastIndex(seq, Test(_)) ==
    IF \E i \in DOMAIN seq : Test(seq[i])
    THEN CHOOSE i \in DOMAIN seq :
            Test(seq[i]) /\ \A j \in (i + 1)..Len(seq) : ~Test(seq[j])
    ELSE 0

select_last_match(filter, assets) ==
    IF filter.some
    THEN IF ~filter.val.valid
         THEN Err([msg |-> "Invalid filter pattern", call |-> 0])
         ELSE LET i == LastIndex(assets, LAMBDA name : contains(name, filter.val.lit))
              IN  IF i = 0
                  THEN Err([msg |-> "No asset matching filter pattern", call |-> 0])
                  ELSE Ok(assets[i])
    ELSE LET i == select_by_platform(assets)
             j == IF i # 0 THEN i ELSE select_any_archive(assets)
         IN  IF j = 0
             THEN Err([msg |-> "No suitable asset found for this platform",
                       call |-> 0])
             ELSE Ok(assets[j])

\* selector.rs: create_selector(filter).select(assets): the selected asset's
\* name, or the error
select(filter, assets) ==
    IF filter.some
    THEN IF ~filter.val.valid
         THEN Err([msg |-> "Invalid filter pattern", call |-> 0])
         ELSE LET i == FirstIndex(assets, LAMBDA name : contains(name, filter.val.lit))
              IN  IF i = 0
                  THEN Err([msg |-> "No asset matching filter pattern", call |-> 0])
                  ELSE Ok(assets[i])
    ELSE LET i == select_by_platform(assets)
             j == IF i # 0 THEN i ELSE select_any_archive(assets)
         IN  IF j = 0
             THEN Err([msg |-> "No suitable asset found for this platform",
                       call |-> 0])
             ELSE Ok(assets[j])

\* ------------------------------------------------------- verifier: helpers

S_LINUX == <<"l","i","n","u","x">>
S_SHA256 == <<"s","h","a","2","5","6">>
S_SHA512 == <<"s","h","a","5","1","2">>

\* the digest lengths parse_checksum_text and detect_algorithm_from_hash test
Sha256HexLen == 64
Sha512HexLen == 128

\* verifier.rs: parse_checksum_text, with the length test left out
parse_checksum_text_any_length(checksum_text) ==
    LET c == FirstColon(checksum_text)
    IN  IF c = 0
        THEN Err([msg |-> "Invalid checksum text format. Expected 'algorithm:hash'",
                  call |-> 0])
        ELSE LET algorithm == to_lowercase(SubSeq(checksum_text, 1, c - 1))
                 hash == trim(SubSeq(checksum_text, c + 1, Len(checksum_text)))
             IN  IF algorithm \in {S_SHA256, S_SHA512}
                 THEN Ok(<<algorithm, hash>>)
                 ELSE Err([msg |-> "Unsupported algorithm or invalid hash length",
                           call |-> 0])

\* verifier.rs: parse_checksum_text
parse_checksum_text(checksum_text) ==
    LET c == FirstColon(checksum_text)
    IN  IF c = 0
        THEN Err([msg |-> "Invalid checksum text format. Expected 'algorithm:hash'",
                  call |-> 0])
        ELSE LET algorithm == to_lowercase(SubSeq(checksum_text, 1, c - 1))
                 hash == trim(SubSeq(checksum_text, c + 1, Len(checksum_text)))
             IN  IF \/ algorithm = S_SHA256 /\ Len(hash) = Sha256HexLen
                    \/ algorithm = S_SHA512 /\ Len(hash) = Sha512HexLen
                 THEN Ok(<<algorithm, hash>>)
                 ELSE Err([msg |-> "Unsupported algorithm or invalid hash length",
                           call |-> 0])

\* verifier.rs: compute_hash. The digest functions are outside the
\* repository: a body carries one lowercase hex character, id, that stands
\* for its bytes, and its digest is that character repeated to the digest's
\* length, so that different bytes have different digests and the two
\* algorithms differ.
compute_hash(data, algorithm) ==
    CASE algorithm = S_SHA256 -> Ok(Repeat(data.id, Sha256HexLen))
      [] algorithm = S_SHA512 -> Ok(Repeat(data.id, Sha512HexLen))
      [] OTHER -> Err([msg |-> "Unsupported hash algorithm", call |-> 0])

\* verifier.rs: get_filename_variants
CompressionExtensions ==
    << <<".","t","a","r",".","g","z">>,
       <<".","t","g","z">>,
       <<".","t","a","r",".","x","z">>,
       <<".","t","x","z">>,
       <<".","t","a","r",".","b","z","2">>,
       <<".","t","b","z","2">>,
       <<".","t","a","r",".","Z">>,
       <<".","t","a","r",".","l","z">>,
       <<".","t","a","r",".","l","z","m","a">>,
       <<".","z","i","p">>,
       <<".","g","z">>,
       <<".","x","z">>,
       <<".","b","z","2">>,
       <<".","Z">>,
       <<".","l","z">>,
       <<".","l","z","m","a">> >>

stripped_name_first(filename) ==
    LET i == FirstIndex(CompressionExtensions, LAMBDA ext : ends_with(filename, ext))
        base_name == IF i = 0 THEN filename
                     ELSE strip_suffix(filename, CompressionExtensions[i])
    IN  IF base_name # filename THEN <<base_name, filename>> ELSE <<filename>>

get_filename_variants(filename) ==
    LET i == FirstIndex(CompressionExtensions, LAMBDA ext : ends_with(filename, ext))
        base_name == IF i = 0 THEN filename
                     ELSE strip_suffix(filename, CompressionExtensions[i])
    IN  IF base_name # filename THEN <<filename, base_name>> ELSE <<filename>>

\* verifier.rs: build_checksum_patterns
ChecksumSuffixes == << <<".","s","h","a","2","5","6">>, <<".","s","h","a","2","5","6","s","u","m">>, <<".","s","h","a","5","1","2">>, <<".","s","h","a","5","1","2","s","u","m">> >>

GenericChecksumNames ==
    << <<"S","H","A","2","5","6","S","U","M","S">>,
       <<"s","h","a","2","5","6","s","u","m","s",".","t","x","t">>,
       <<"c","h","e","c","k","s","u","m","s",".","t","x","t">>,
       <<"C","H","E","C","K","S","U","M","S">>,
       <<"c","h","e","c","k","s","u","m","s",".","s","h","a","2","5","6">>,
       <<"S","H","A","5","1","2","S","U","M","S">>,
       <<"c","h","e","c","k","s","u","m","s",".","s","h","a","5","1","2">> >>

RECURSIVE VariantPatterns(_)
VariantPatterns(variants) ==
    IF variants = <<>> THEN <<>>
    ELSE [i \in 1..Len(ChecksumSuffixes) |-> Head(variants) \o ChecksumSuffixes[i]]
            \o VariantPatterns(Tail(variants))

build_checksum_patterns(filename) ==
    VariantPatterns(get_filename_variants(filename)) \o GenericChecksumNames

\* verifier.rs: find_signature_asset: index in assets, 0 for None
find_signature_asset(assets, asset_name) ==
    FirstIndex(assets, LAMBDA name :
        name \in {asset_name \o <<".","a","s","c">>, asset_name \o <<".","s","i","g">>})

\* verifier.rs: find_checksum_asset: index in assets, 0 for the error
find_checksum_asset(assets, asset_name) ==
    LET patterns == build_checksum_patterns(asset_name)
    IN  FirstIndex(assets, LAMBDA name :
            \E i \in DOMAIN patterns : eq_ignore_ascii_case(name, patterns[i]))

\* verifier.rs: detect_algorithm_from_hash
detect_algorithm_from_hash(hash) ==
    IF Len(hash) = Sha512HexLen THEN S_SHA512 ELSE S_SHA256

\* position of the first whitespace of s, 0 when there is none
FirstWhitespace(s) == FirstIndex(s, IsWhitespace)

keep_star(s) == s

RECURSIVE trim_start_matches_star(_)
trim_start_matches_star(s) ==
    IF s # <<>> /\ Head(s) = "*" THEN trim_start_matches_star(Tail(s)) ELSE s

\* verifier.rs: parse_checksum_line_format: Some(<<hash, filename>>) or None
parse_checksum_line_format(line) ==
    LET c == FirstColon(line)
        cf == trim(SubSeq(line, 1, c - 1))
        ch == trim(SubSeq(line, c + 1, Len(line)))
        w == FirstWhitespace(line)
        wh == SubSeq(line, 1, w - 1)
        wf == trim(trim_start_matches_star(SubSeq(line, w + 1, Len(line))))
    IN  IF c # 0 /\ ch # <<>> /\ cf # <<>> THEN Some(<<ch, cf>>)
        ELSE IF w # 0 /\ wh # <<>> /\ wf # <<>> THEN Some(<<wh, wf>>)
        ELSE None

\* verifier.rs: parse_checksum_file. The text is held as its lines; the map
\* is held as the list of its insertions, a later one replacing an earlier
\* one of the same filename.
RECURSIVE ChecksumInsertions(_)
ChecksumInsertions(lines) ==
    IF lines = <<>> THEN <<>>
    ELSE LET line == trim(Head(lines))
             parsed == parse_checksum_line_format(line)
         IN  IF line = <<>> \/ Head(line) = "#" \/ ~parsed.some
             THEN ChecksumInsertions(Tail(lines))
             ELSE << [filename |-> parsed.val[2],
                      algorithm |-> detect_algorithm_from_hash(parsed.val[1]),
                      hash |-> parsed.val[1]] >>
                    \o ChecksumInsertions(Tail(lines))

parse_checksum_file(lines) ==
    LET ins == ChecksumInsertions(lines)
    IN  IF ins = <<>>
        THEN Err([msg |-> "No valid checksums found in file", call |-> 0])
        ELSE Ok(ins)

\* HashMap::get on that map: the last insertion of the filename
checksums_get(ins, filename) ==
    IF \E i \in DOMAIN ins : ins[i].filename = filename
    THEN Some(ins[CHOOSE i \in DOMAIN ins :
                    /\ ins[i].filename = filename
                    /\ \A j \in (i + 1)..Len(ins) : ins[j].filename # filename])
    ELSE None

\* verifier.rs: verify_checksum_file, after its two downloads
verify_checksum_file_finish(asset_name, asset_data, checksum_lines) ==
    LET checksums == parse_checksum_file(checksum_lines)
    IN  IF ~checksums.ok THEN checksums
        ELSE
        LET variants == get_filename_variants(asset_name)
            i == FirstIndex(variants, LAMBDA v : checksums_get(checksums.val, v).some)
        IN  IF i = 0
            THEN Err([msg |-> "No matching checksum found for asset", call |-> 0])
            ELSE LET e == checksums_get(checksums.val, variants[i]).val
                     computed == compute_hash(asset_data, e.algorithm)
                 IN  IF ~computed.ok THEN computed
                     ELSE IF eq_ignore_ascii_case(computed.val, e.hash)
                     THEN Ok("verified")
                     ELSE Err([msg |-> "Checksum verification failed!", call |-> 0])

\* verifier.rs: verify_with_checksum_text, after its download
verify_with_checksum_text_exact_case(parsed, asset_data) ==
    LET computed == compute_hash(asset_data, parsed[1])
    IN  IF ~computed.ok THEN computed
        ELSE IF computed.val = parsed[2]
        THEN Ok("verified")
        ELSE Err([msg |-> "Checksum verification failed!", call |-> 0,
                  expected |-> parsed[2], computed |-> computed.val])

verify_with_checksum_text_finish(parsed, asset_data) ==
    LET computed == compute_hash(asset_data, parsed[1])
    IN  IF ~computed.ok THEN computed
        ELSE IF eq_ignore_ascii_case(computed.val, parsed[2])
        THEN Ok("verified")
        ELSE Err([msg |-> "Checksum verification failed!", call |-> 0,
                  expected |-> parsed[2], computed |-> computed.val])

\* verifier.rs: verify_gpg_signature, after its three legs. The pgp crate is
\* outside the repository: a signature body names the bytes it was made over
\* and the key that made it, and verifies against exactly those; a body that
\* is no signature does not parse.
verify_gpg_signature_finish(asset_data, sig_data, public_key) ==
    IF sig_data.form \notin {"armored", "binary"}
    THEN Err([msg |-> "signature parse error", call |-> 0])
    ELSE IF sig_data.over = asset_data.id /\ sig_data.by = public_key.id
    THEN Ok("verified")
    ELSE Err([msg |-> "signature verification failed", call |-> 0])

\* ------------------------------------------------------ what the remote serves

GzipMagic == <<31, 139>>
XzMagic == <<253, 55, 122, 88, 90, 0>>
ZipMagic == <<80, 75, 3, 4>>

\* Bodies. id stands for the bytes (see compute_hash), head is the leading
\* bytes, entries the tar entries in archive order.
GZ_TOOL ==
    [id |-> "a", head |-> GzipMagic,
     entries |-> << [base |-> "README", kind |-> "file", bytes |-> "r"],
                    [base |-> "tool", kind |-> "file", bytes |-> "t"] >>]
GZ_NO_TOOL ==
    [id |-> "b", head |-> GzipMagic,
     entries |-> << [base |-> "README", kind |-> "file", bytes |-> "r"] >>]
XZ_TOOLS ==
    [id |-> "c", head |-> XzMagic,
     entries |-> << [base |-> "tool", kind |-> "file", bytes |-> "t"],
                    [base |-> "extra", kind |-> "file", bytes |-> "x"] >>]
ZIP_BODY == [id |-> "d", head |-> ZipMagic, entries |-> <<>>]
RAW_BODY == [id |-> "e", head |-> <<127, 69, 76, 70>>, entries |-> <<>>]

ArchiveBodies == {GZ_TOOL, GZ_NO_TOOL, XZ_TOOLS, ZIP_BODY}

\* Further bodies, served under the names N_TGZ, N_TXZ, N_TBZ and N_7Z:
\* other leading bytes, data shorter than a magic, and tar layouts with
\* directories, nested and repeated base names, and a damaged entry.
\* "BZh" begins a bzip2 stream, 37 7A BC AF 27 1C a 7z archive
BZ2_BODY == [id |-> "g", head |-> <<66, 90, 104>>, entries |-> <<>>]
SEVENZ_BODY ==
    [id |-> "h", head |-> <<55, 122, 188, 175, 39, 28>>, entries |-> <<>>]
EMPTY_BODY == [id |-> "i", head |-> <<>>, entries |-> <<>>]
GZ_SHORT == [id |-> "j", head |-> <<31>>, entries |-> <<>>]
XZ_SHORT == [id |-> "k", head |-> <<253, 55, 122, 88, 90>>, entries |-> <<>>]
\* tool/ (a directory) and tool/README
GZ_DIR ==
    [id |-> "l", head |-> GzipMagic,
     entries |-> << [base |-> "tool", kind |-> "dir", bytes |-> ""],
                    [base |-> "README", kind |-> "file", bytes |-> "r"] >>]
\* tool/ (a directory) and tool/tool
GZ_NESTED ==
    [id |-> "m", head |-> GzipMagic,
     entries |-> << [base |-> "tool", kind |-> "dir", bytes |-> ""],
                    [base |-> "tool", kind |-> "file", bytes |-> "t"] >>]
\* bin/tool, bin/extra and share/tool
GZ_TWICE ==
    [id |-> "n", head |-> GzipMagic,
     entries |-> << [base |-> "tool", kind |-> "file", bytes |-> "t"],
                    [base |-> "extra", kind |-> "file", bytes |-> "x"],
                    [base |-> "tool", kind |-> "file", bytes |-> "u"] >>]
GZ_DAMAGED ==
    [id |-> "o", head |-> GzipMagic,
     entries |-> << [base |-> "tool", kind |-> "file", bytes |-> "t"],
                    [base |-> "", kind |-> "corrupt", bytes |-> ""] >>]
XZ_DIR == [id |-> "p", head |-> XzMagic, entries |-> GZ_DIR.entries]
XZ_NESTED == [id |-> "q", head |-> XzMagic, entries |-> GZ_NESTED.entries]
XZ_DAMAGED == [id |-> "r", head |-> XzMagic, entries |-> GZ_DAMAGED.entries]

OtherArchiveBodies ==
    ArchiveBodies \cup
        {BZ2_BODY, SEVENZ_BODY, EMPTY_BODY, GZ_SHORT, XZ_SHORT, GZ_DIR, GZ_NESTED,
         GZ_TWICE, GZ_DAMAGED, XZ_DIR, XZ_NESTED, XZ_DAMAGED}

\* checksum files: the digest of GZ_TOOL for the archive, another digest for
\* it, and a file that does not list it
\* A checksum file written line by line: `said` tells what each line says
\* (a comment, a blank line, or a digest for a file in one of the three
\* layouts), `lines` is its text.
LineText(d) ==
    CASE d.form = "colon" -> d.file \o <<":", " ">> \o d.hash
      [] d.form = "plain" -> d.hash \o <<" ", " ">> \o d.file
      [] d.form = "star" -> d.hash \o <<" ", "*">> \o d.file
      [] d.form = "blank" -> <<" ">>
      [] d.form = "comment" -> <<"#", " ", "s", "u", "m", "s">>

SumsFile(said) ==
    [id |-> "s", head |-> <<>>, said |-> said,
     lines |-> [i \in DOMAIN said |-> LineText(said[i])]]

Digests ==
    { <<"a","b","c","1","2","3">>, Repeat("a", Sha256HexLen), Repeat("A", Sha256HexLen),
      Repeat("f", Sha256HexLen), Repeat("a", Sha512HexLen) }

Comment == [form |-> "comment", file |-> <<>>, hash |-> <<>>]
Blank == [form |-> "blank", file |-> <<>>, hash |-> <<>>]
Entry(form, file, hash) == [form |-> form, file |-> file, hash |-> hash]

\* the files served under the name SHA256SUMS: one entry after a comment and
\* a blank line; the asset's name and its stripped name with equal or
\* different digests, in both orders; three files in the three layouts; the
\* same file twice; and no entry at all
SumsFiles ==
    { SumsFile(<<Comment, Blank, Entry(form, file, hash)>>) :
        form \in {"colon", "plain", "star"}, file \in {N_ARCHIVE, N_RAW, N_WINDOWS},
        hash \in Digests }
    \cup { SumsFile(<<Entry("plain", N_ARCHIVE, h1), Entry("plain", N_RAW, h2)>>) :
             h1 \in Digests \ {<<"a","b","c","1","2","3">>},
             h2 \in {Repeat("a", Sha256HexLen), Repeat("f", Sha256HexLen)} }
    \cup { SumsFile(<<Entry("star", N_RAW, h2), Entry("colon", N_ARCHIVE, h1)>>) :
             h1 \in {Repeat("a", Sha256HexLen), Repeat("f", Sha256HexLen)},
             h2 \in {Repeat("a", Sha256HexLen), Repeat("f", Sha256HexLen)} }
    \cup { SumsFile(<<Entry("plain", N_WINDOWS, Repeat("f", Sha256HexLen)), Blank,
                       Entry("star", N_RAW, Repeat("a", Sha512HexLen)),
                       Entry("colon", N_ARCHIVE, Repeat("a", Sha256HexLen))>>),
             SumsFile(<<Entry("plain", N_ARCHIVE, Repeat("f", Sha256HexLen)),
                       Entry("colon", N_ARCHIVE, Repeat("a", Sha256HexLen))>>),
             SumsFile(<<Comment, Blank>>) }

SumsBodies ==
    { [id |-> "1", head |-> <<>>,
       lines |-> << Repeat("a", Sha256HexLen) \o <<" "," ">> \o N_ARCHIVE >>],
      [id |-> "2", head |-> <<>>,
       lines |-> << Repeat("f", Sha256HexLen) \o <<" "," ">> \o N_ARCHIVE >>],
      [id |-> "3", head |-> <<>>,
       lines |-> << Repeat("a", Sha256HexLen) \o <<" "," ">> \o N_WINDOWS >>] }

\* signatures: over GZ_TOOL by key K1, armored and binary, and over other
\* bytes
SigBodies ==
    { [id |-> "4", head |-> <<>>, form |-> "armored", over |-> "a", by |-> "K1"],
      [id |-> "5", head |-> <<>>, form |-> "armored", over |-> "b", by |-> "K1"],
      [id |-> "6", head |-> <<>>, form |-> "binary", over |-> "a", by |-> "K1"] }

IsSignatureName(name) ==
    ends_with(name, <<".","a","s","c">>) \/ ends_with(name, <<".","s","i","g">>)

IsChecksumName(name) ==
    \/ \E i \in DOMAIN ChecksumSuffixes : ends_with(name, ChecksumSuffixes[i])
    \/ \E i \in DOMAIN GenericChecksumNames :
          eq_ignore_ascii_case(name, GenericChecksumNames[i])

\* the asset lists a release can hold, taken up by FetchReturn
AssetLists ==
    { <<>>,
      <<N_README>>,
      <<N_RAW>>,
      <<N_WINDOWS, N_ARCHIVE>>,
      <<N_ARCHIVE, N_ARCHIVE_SHA256>>,
      <<N_ARCHIVE, N_CHECKSUMS, N_ARCHIVE_ASC>> }

\* the bodies a successful GET of an asset's URL can bring
Served(name) ==
    IF IsSignatureName(name) THEN SigBodies
    ELSE IF name = N_SHA256SUMS THEN SumsFiles
    ELSE IF IsChecksumName(name) THEN SumsBodies
    ELSE IF name \in {N_TGZ, N_TXZ, N_TBZ, N_7Z} THEN OtherArchiveBodies
    ELSE IF is_archive(to_lowercase(name)) THEN ArchiveBodies
    ELSE {RAW_BODY}

\* the body of an error page
ERROR_PAGE == [id |-> "z", head |-> <<60, 104, 116, 109, 108, 62>>, form |-> "page"]

\* What one reqwest::get of an asset's URL can bring: no response (status 0
\* stands for the transport error), a non-success response with its page,
\* or 200 with a body.
asset_responses(name) ==
    { [status |-> 0, data |-> Err([msg |-> "connection error", call |-> 0])],
      [status |-> 404, data |-> Ok(ERROR_PAGE)] }
        \cup {[status |-> 200, data |-> Ok(b)] : b \in Served(name)}

\* StatusCode::is_success
is_success(status) == status \div 100 = 2

download_asset_any_status(resp) == resp.data

\* verifier.rs / extractor.rs: download_asset_data, download_asset_text on
\* one response
download_asset_from(resp) ==
    IF ~resp.data.ok THEN resp.data
    ELSE IF ~is_success(resp.status)
    THEN Err([msg |-> "Failed to download asset: 404", call |-> 0])
    ELSE resp.data

download_asset(name) == {download_asset_from(r) : r \in asset_responses(name)}

\* verifier.rs: load_public_key. The key material is fetched (one
\* reqwest::get, no status test), read from the path, or taken literally, and
\* then parsed by SignedPublicKey::from_string, which reads armored text.
\* A binary key read from a path is either refused by read_to_string as not
\* UTF-8 or, read, refused by the parser.
\* Where the key material comes from. For a URL: no response, 200 with the
\* key, or a non-success response carrying an error page or key text. The
\* file and the literal involve no request (status 0).
key_sources(key) ==
    LET text == [form |-> key.form, id |-> key.id]
    IN  IF key.how = "url"
        THEN { [status |-> 0, data |-> Err([msg |-> "connection error", call |-> 0])],
               [status |-> 200, data |-> Ok(text)],
               [status |-> 404, data |-> Ok([form |-> "page", id |-> ""])],
               [status |-> 404, data |-> Ok(text)] }
        ELSE (IF key.how = "path" /\ key.form = "binary"
              THEN {[status |-> 0,
                     data |-> Err([msg |-> "stream did not contain valid UTF-8",
                                   call |-> 0])]}
              ELSE {})
                \cup {[status |-> 0, data |-> Ok(text)]}

\* SignedPublicKey::from_string
from_string(text) ==
    IF text.form = "armored"
    THEN Ok([id |-> text.id, head |-> <<>>])
    ELSE Err([msg |-> "key parse error", call |-> 0])

\* load_public_key on one source: `?` on the read, then the parse
load_public_key_from(src) ==
    IF ~src.data.ok THEN src.data ELSE from_string(src.data.val)

load_public_key(key) == {load_public_key_from(s) : s \in key_sources(key)}

\* -------------------------------------------------------------- extractor

NoLegs == << >>
\* install_dir (exists, files) and the scratch directories that exist
EmptyFs == [exists |-> FALSE, files |-> {}, scratch |-> {}]

\* tempfile::tempdir(): a new directory of its own name
tempdir(f) == [f EXCEPT !.scratch = @ \cup {[name |-> "tmp", holds |-> {}]}]

\* a file or directory made in the scratch directory
InScratch(f, what) ==
    [f EXCEPT !.scratch = {[d EXCEPT !.holds = @ \cup {what}] : d \in @}]

keep_temp_dir(f) == f

\* Drop of the TempDir at the end of extract_archive: the directory and what
\* it holds are removed
drop_temp_dir(f) == [f EXCEPT !.scratch = {}]

\* fs::create_dir_all(bin_location)
create_dir_all(f) == [f EXCEPT !.exists = TRUE]

HasKind(f, name, kind) == \E x \in f.files : x.name = name /\ x.kind = kind

\* a file or directory put at install_dir/name with mode 0o755
Put(f, name, kind, bytes) ==
    [f EXCEPT !.files =
        {x \in f.files : x.name # name}
            \cup {[name |-> name, kind |-> kind, bytes |-> bytes, mode |-> "755"]}]

InSeq(x, seq) == \E i \in DOMAIN seq : seq[i] = x

\* extractor.rs: is_tar_xz_archive, is_gzip_archive
is_gzip_first_byte(data) == Len(data.head) >= 1 /\ data.head[1] = 31

is_tar_xz_archive(data) ==
    Len(data.head) >= 6 /\ SubSeq(data.head, 1, 6) = XzMagic

is_gzip_archive(data) ==
    Len(data.head) >= 2 /\ data.head[1] = 31 /\ data.head[2] = 139

RECURSIVE PutEach(_, _, _)
PutEach(f, names, bytes) ==
    IF names = <<>> THEN f
    ELSE PutEach(Put(f, Head(names), "file", bytes), Tail(names), bytes)

extract_raw_binary_each(data, binary_names, f) ==
    IF binary_names = <<>>
    THEN <<create_dir_all(f), Err([msg |-> "No binary name specified for raw binary",
                                   call |-> 0])>>
    ELSE <<PutEach(create_dir_all(f), binary_names, data.id), Ok("installed")>>

extract_raw_binary_name_first(data, binary_names, f) ==
    IF binary_names = <<>>
    THEN <<f, Err([msg |-> "No binary name specified for raw binary", call |-> 0])>>
    ELSE <<Put(create_dir_all(f), binary_names[1], "file", data.id), Ok("installed")>>

\* extractor.rs: extract_raw_binary: <<the directory after it, its result>>
extract_raw_binary(data, binary_names, f) ==
    LET f1 == create_dir_all(f)
    IN  IF binary_names = <<>>
        THEN <<f1, Err([msg |-> "No binary name specified for raw binary",
                        call |-> 0])>>
        ELSE <<Put(f1, binary_names[1], "file", data.id), Ok("installed")>>

install_binary_skipped(e, f) == <<f, Ok("installed")>>

\* extractor.rs: install_binary: entry.unpack(dest) and the chmod. tar puts a
\* file where no directory is, and a directory where no file is.
install_binary(e, f) ==
    IF e.kind = "file"
    THEN IF HasKind(f, e.base, "dir")
         THEN <<f, Err([msg |-> "io error", call |-> 0])>>
         ELSE <<Put(f, e.base, "file", e.bytes), Ok("installed")>>
    ELSE IF HasKind(f, e.base, "file")
         THEN <<f, Err([msg |-> "io error", call |-> 0])>>
         ELSE <<Put(f, e.base, "dir", ""), Ok("installed")>>

\* extractor.rs: the entry loop of extract_tar_gz
RECURSIVE gz_entries(_, _, _)
gz_entries(entries, binary_names, f) ==
    IF entries = <<>> THEN <<f, Ok("installed")>>
    ELSE LET e == Head(entries)
         IN  IF e.kind = "corrupt"
             THEN <<f, Err([msg |-> "tar read error", call |-> 0])>>
             ELSE IF InSeq(e.base, binary_names)
             THEN LET r == install_binary(e, f)
                  IN  IF r[2].ok
                      THEN gz_entries(Tail(entries), binary_names, r[1])
                      ELSE r
             ELSE gz_entries(Tail(entries), binary_names, f)

\* extractor.rs: extract_tar_gz
extract_tar_gz(data, binary_names, f) ==
    gz_entries(data.entries, binary_names,
               create_dir_all(InScratch(f, "download.tar.gz")))

\* extractor.rs: find_and_install_binaries: the regular files of the
\* unpacked tree whose name is requested, copied in walk order
RECURSIVE find_and_install_binaries(_, _, _)
find_and_install_binaries(entries, binary_names, f) ==
    IF entries = <<>> THEN <<f, Ok("installed")>>
    ELSE LET e == Head(entries)
         IN  IF e.kind = "file" /\ InSeq(e.base, binary_names)
             THEN IF HasKind(f, e.base, "dir")
                  THEN <<f, Err([msg |-> "io error", call |-> 0])>>
                  ELSE find_and_install_binaries(
                          Tail(entries), binary_names,
                          Put(f, e.base, "file", e.bytes))
             ELSE find_and_install_binaries(Tail(entries), binary_names, f)

\* extractor.rs: extract_tar_xz
extract_tar_xz(data, binary_names, f) ==
    LET f1 == create_dir_all(InScratch(f, "extracted"))
    IN  IF \E i \in DOMAIN data.entries : data.entries[i].kind = "corrupt"
        THEN <<f1, Err([msg |-> "tar read error", call |-> 0])>>
        ELSE find_and_install_binaries(data.entries, binary_names, f1)

\* extractor.rs: extract_archive: the function the leading bytes pick
archive_format(data) ==
    IF is_tar_xz_archive(data) THEN "extract_tar_xz"
    ELSE IF is_gzip_archive(data) THEN "extract_tar_gz"
    ELSE "bail"

\* extractor.rs: extract_archive up to its return: the scratch directory is
\* made first and handed to the function the leading bytes pick
extract_archive_body(data, binary_names, f) ==
    LET f0 == tempdir(f)
    IN  IF archive_format(data) = "extract_tar_xz"
        THEN extract_tar_xz(data, binary_names, f0)
        ELSE IF archive_format(data) = "extract_tar_gz"
        THEN extract_tar_gz(data, binary_names, f0)
        ELSE <<f0, Err([msg |-> "Unsupported archive format", call |-> 0])>>

\* extractor.rs: extract_archive: temp_dir goes out of scope at the return
extract_archive(data, binary_names, f) ==
    LET r == extract_archive_body(data, binary_names, f)
    IN  <<drop_temp_dir(r[1]), r[2]>>

\* extractor.rs: create_extractor
create_extractor(name) ==
    IF is_archive(to_lowercase(name)) THEN "Archive" ELSE "RawBinary"

\* ------------------------------------------------------------- retry_async

\* RetryConfig.backoff_multiplier is an f64; the model keeps it as an exact
\* fraction <<numerator, denominator>> with a power-of-two denominator, for
\* which the f64 arithmetic of the source is exact within the bounds here
\* (1.0, 1.5 and the default 2.0).
Multipliers == {<<1, 1>>, <<3, 2>>, <<2, 1>>}
InitialDelays == {1, 100}

RetryConfigs ==
    [max_retries : 0..MaxRetries, initial_delay_ms : InitialDelays,
     backoff_multiplier : Multipliers]

\* (initial_delay_ms as f64 * backoff_multiplier.powi(attempt as i32)) as u64:
\* the cast truncates toward zero
DelayMsNextPower(cfg, i) ==
    (cfg.initial_delay_ms * Pow(cfg.backoff_multiplier[1], i + 1))
        \div Pow(cfg.backoff_multiplier[2], i + 1)

DelayMs(cfg, i) ==
    (cfg.initial_delay_ms * Pow(cfg.backoff_multiplier[1], i))
        \div Pow(cfg.backoff_multiplier[2], i)

\* if config.max_retries == 0 { return operation().await; }
NoFastPath(cfg) == FALSE

FastPath(cfg) == cfg.max_retries = 0

\* for attempt in 0..=config.max_retries : the last value of the loop variable
LastAttemptExclusive(cfg) == cfg.max_retries - 1

LastAttempt(cfg) == cfg.max_retries

\* the three GitHub calls of fetch_release, by branch
FetchBranch(cfg) ==
    IF cfg.version = "latest"
    THEN IF cfg.include_prerelease THEN "get_latest" ELSE "list"
    ELSE "get_by_tag"

\* What invocation number k of the wrapped call can produce: a transport
\* failure at any time, otherwise the remote's answer. A payload is a list of
\* releases (one release for get_latest and get_by_tag).
FetchOp(k) ==
    LET b == FetchBranch(config)
        notFound == Err([msg |-> "GitHub: Not Found", call |-> k])
    IN  {Err([msg |-> "connection error", call |-> k])} \cup
        CASE b = "get_latest" ->
                IF upstream = <<>> THEN {notFound}
                ELSE {Ok(<<upstream[i]>>) : i \in DOMAIN upstream}
          [] b = "list" -> {Ok(upstream)}
          [] OTHER ->
                IF \E i \in DOMAIN upstream : upstream[i].tag_name = config.version
                THEN {Ok(<<upstream[i]>>) :
                        i \in {j \in DOMAIN upstream :
                                 upstream[j].tag_name = config.version}}
                ELSE {notFound}

CallEvent(k, out) == [ev |-> "call", k |-> k, out |-> out]

\* retry.rs: the max_retries == 0 path
RetryOnce ==
    /\ pc = "fetch"
    /\ FastPath(retry_config)
    /\ \E out \in FetchOp(1) :
          /\ ret' = Some(out)
          /\ log' = Append(log, CallEvent(1, out))
    /\ pc' = "fetched"
    /\ UNCHANGED <<config, retry_config, upstream, attempt, last_error,
                   release, asset, dl, fs, env, result>>

\* retry.rs: one iteration of the loop, up to its sleep
RetryAttempt ==
    /\ pc = "fetch"
    /\ ~FastPath(retry_config)
    /\ \E out \in FetchOp(attempt + 1) :
          IF out.ok
          THEN /\ ret' = Some(out)
               /\ log' = Append(log, CallEvent(attempt + 1, out))
               /\ pc' = "fetched"
               /\ UNCHANGED last_error
          ELSE /\ last_error' = Some(out.err)
               /\ IF attempt < LastAttempt(retry_config)
                  THEN /\ log' = log \o
                            << CallEvent(attempt + 1, out),
                               [ev |-> "warn_retry", k |-> attempt + 1,
                                of |-> retry_config.max_retries + 1,
                                ms |-> DelayMs(retry_config, attempt)] >>
                       /\ pc' = "sleep"
                       /\ UNCHANGED ret
                  ELSE /\ log' = log \o
                            << CallEvent(attempt + 1, out),
                               [ev |-> "warn_exhausted",
                                of |-> retry_config.max_retries + 1] >>
                       /\ ret' = Some(Err(last_error'.val))
                       /\ pc' = "fetched"
    /\ UNCHANGED <<config, retry_config, upstream, attempt, release, asset,
                   dl, fs, env, result>>

\* retry.rs: sleep(Duration::from_millis(delay_ms)).await, then the next
\* iteration
RetrySleep ==
    /\ pc = "sleep"
    /\ log' = Append(log, [ev |-> "sleep", ms |-> DelayMs(retry_config, attempt)])
    /\ attempt' = attempt + 1
    /\ pc' = "fetch"
    /\ UNCHANGED <<config, retry_config, upstream, last_error, ret, release,
                   asset, dl, fs, env, result>>

\* ----------------------------------------------------- command line, install

Fail(e) == Some(Err(e))

\* args.rs: verify_checksum and checksum_text are declared conflicts_with
\* each other
ConflictingArgs(cfg) == cfg.verify_checksum /\ cfg.checksum_text.some

\* cli::run and the GhRelease arm of handle_command, up to the call of
\* install
CliRun ==
    /\ pc = "cli"
    /\ IF ConflictingArgs(config)
       THEN /\ result' = Fail([msg |-> "the argument cannot be used with", call |-> 0])
            /\ pc' = "done"
       ELSE IF ~env.debian_like
       THEN /\ result' = Fail([msg |-> "gh-release command is only supported on Debian/Ubuntu systems.",
                               call |-> 0])
            /\ pc' = "done"
       ELSE /\ pc' = "fetch"
            /\ UNCHANGED result
    /\ UNCHANGED <<config, retry_config, upstream, attempt, last_error, ret,
                   release, asset, dl, fs, env, log>>

\* client.rs: releases.items.into_iter().find(|r| !r.prerelease): index, 0
\* for None
first_listed(releases) == IF releases = <<>> THEN 0 ELSE 1

find_stable(releases) == FirstIndex(releases, LAMBDA r : ~r.prerelease)

\* client.rs: fetch_release after its retry_async returned, and install's `?`
\* on it. The assets of the release that is returned are chosen here: no
\* other release's assets are ever read.
FetchReturn ==
    /\ pc = "fetched"
    /\ IF ~ret.val.ok
       THEN /\ result' = Fail(ret.val.err)
            /\ pc' = "done"
            /\ UNCHANGED release
       ELSE LET releases == ret.val.val
                i == IF FetchBranch(config) = "list"
                     THEN find_stable(releases)
                     ELSE 1
            IN  IF i = 0
                THEN /\ result' = Fail([msg |-> "No stable releases found", call |-> 0])
                     /\ pc' = "done"
                     /\ UNCHANGED release
                ELSE /\ \E assets \in AssetLists :
                          release' = Some([tag_name |-> releases[i].tag_name,
                                           prerelease |-> releases[i].prerelease,
                                           assets |-> assets])
                     /\ pc' = "select"
                     /\ UNCHANGED result
    /\ UNCHANGED <<config, retry_config, upstream, attempt, last_error, ret,
                   asset, dl, fs, env, log>>

\* mod.rs: create_selector(config.filter).select(&release.assets)?
Select ==
    /\ pc = "select"
    /\ LET r == select(config.filter, release.val.assets)
       IN  IF r.ok
           THEN /\ asset' = Some(r.val)
                /\ pc' = "verify"
                /\ UNCHANGED result
           ELSE /\ result' = Fail(r.err)
                /\ pc' = "done"
                /\ UNCHANGED asset
    /\ UNCHANGED <<config, retry_config, upstream, attempt, last_error, ret,
                   release, dl, fs, env, log>>

\* mod.rs: which verifier function install calls
KeyImpliesVerify(cfg) ==
    IF cfg.checksum_text.some THEN "verify_with_checksum_text"
    ELSE IF cfg.verify_checksum \/ cfg.gpg_key.some THEN "verify_asset"
    ELSE "none"

VerifierCalled(cfg) ==
    IF cfg.checksum_text.some THEN "verify_with_checksum_text"
    ELSE IF cfg.verify_checksum THEN "verify_asset"
    ELSE "none"

Pending(legs) == [l \in legs |-> None]

NoChecksumFile == [msg |-> "No checksum file found", call |-> 0]

\* verifier.rs: verify_asset (and verify_gpg_signature) up to the first
\* download: the legs to join, success without a check, or the error
verify_asset_checksum_first(assets, name, gpg_key) ==
    IF find_checksum_asset(assets, name) # 0
    THEN [go |-> "join", legs |-> {"asset", "sums"}]
    ELSE IF find_signature_asset(assets, name) # 0
    THEN IF gpg_key.some
         THEN [go |-> "join", legs |-> {"asset", "sig", "key"}]
         ELSE [go |-> "unverified"]
    ELSE [go |-> "fail", err |-> NoChecksumFile]

verify_asset_lenient(assets, name, gpg_key) ==
    IF find_signature_asset(assets, name) # 0
    THEN IF gpg_key.some
         THEN [go |-> "join", legs |-> {"asset", "sig", "key"}]
         ELSE [go |-> "unverified"]
    ELSE IF find_checksum_asset(assets, name) # 0
    THEN [go |-> "join", legs |-> {"asset", "sums"}]
    ELSE [go |-> "unverified"]

verify_asset_start(assets, name, gpg_key) ==
    IF find_signature_asset(assets, name) # 0
    THEN IF gpg_key.some
         THEN [go |-> "join", legs |-> {"asset", "sig", "key"}]
         ELSE [go |-> "unverified"]
    ELSE IF find_checksum_asset(assets, name) # 0
    THEN [go |-> "join", legs |-> {"asset", "sums"}]
    ELSE [go |-> "fail", err |-> NoChecksumFile]

\* verifier.rs: verify_with_checksum_text up to its download
verify_with_checksum_text_start(checksum_text) ==
    LET parsed == parse_checksum_text(checksum_text)
    IN  IF parsed.ok
        THEN [go |-> "join", legs |-> {"asset"}, parsed |-> parsed.val]
        ELSE [go |-> "fail", err |-> parsed.err]

\* mod.rs: the verification branch of install, and the called function up to
\* its first download
VerifyDispatch ==
    /\ pc = "verify"
    /\ LET fn == VerifierCalled(config)
           start == IF fn = "verify_with_checksum_text"
                    THEN verify_with_checksum_text_start(config.checksum_text.val)
                    ELSE verify_asset_start(release.val.assets, asset.val,
                                            config.gpg_key)
           called == [ev |-> "verify", fn |-> fn, start |-> start]
       IN  IF fn = "none"
           THEN /\ pc' = "extract"
                /\ UNCHANGED <<dl, log, result>>
           ELSE CASE start.go = "join" ->
                       /\ dl' = Pending(start.legs)
                       /\ pc' = "join"
                       /\ log' = Append(log, called)
                       /\ UNCHANGED result
                  [] start.go = "unverified" ->
                       /\ log' = log \o << called, [ev |-> "warn_no_key"] >>
                       /\ pc' = "extract"
                       /\ UNCHANGED <<dl, result>>
                  [] OTHER ->
                       /\ result' = Fail(start.err)
                       /\ pc' = "done"
                       /\ log' = Append(log, called)
                       /\ UNCHANGED dl
    /\ UNCHANGED <<config, retry_config, upstream, attempt, last_error, ret,
                   release, asset, fs, env>>

\* the asset a leg of the join downloads
LegName(l) ==
    CASE l = "asset" -> asset.val
      [] l = "sig" ->
            release.val.assets[find_signature_asset(release.val.assets, asset.val)]
      [] l = "sums" ->
            release.val.assets[find_checksum_asset(release.val.assets, asset.val)]

\* what a leg can meet: each leg is one call of download_asset_data /
\* download_asset_text, or load_public_key
LegResponses(l) ==
    IF l = "key" THEN key_sources(config.gpg_key.val)
    ELSE asset_responses(LegName(l))

LegOutcome(l, resp) ==
    IF l = "key" THEN load_public_key_from(resp) ELSE download_asset_from(resp)

\* verifier.rs: one leg of tokio::try_join! completes; the join returns at
\* the first leg that fails
Download(l) ==
    /\ pc = "join"
    /\ l \in DOMAIN dl
    /\ ~dl[l].some
    /\ \E resp \in LegResponses(l) :
          LET out == LegOutcome(l, resp)
          IN
          /\ log' = Append(log, [ev |-> IF l = "key" THEN "load_key" ELSE "get",
                                 by |-> "verifier", leg |-> l,
                                 name |-> IF l = "key" THEN <<>> ELSE LegName(l),
                                 status |-> resp.status, out |-> out])
          /\ IF out.ok
             THEN /\ dl' = [dl EXCEPT ![l] = Some(out.val)]
                  /\ UNCHANGED <<pc, result>>
             ELSE /\ result' = Fail(out.err)
                  /\ pc' = "done"
                  /\ UNCHANGED dl
    /\ UNCHANGED <<config, retry_config, upstream, attempt, last_error, ret,
                   release, asset, fs, env>>

\* mod.rs: the `?` on the verifier's result: install goes on only if it is Ok
PassedAnyway(r) == TRUE

Passed(r) == r.ok

\* verifier.rs: what follows the join in verify_with_checksum_text,
\* verify_gpg_signature and verify_checksum_file, and install's `?` on it
VerifyFinish ==
    /\ pc = "join"
    /\ \A l \in DOMAIN dl : dl[l].some
    /\ LET r == IF "sig" \in DOMAIN dl
                THEN verify_gpg_signature_finish(dl["asset"].val, dl["sig"].val,
                                                 dl["key"].val)
                ELSE IF "sums" \in DOMAIN dl
                THEN verify_checksum_file_finish(asset.val, dl["asset"].val,
                                                 dl["sums"].val.lines)
                ELSE verify_with_checksum_text_finish(
                        parse_checksum_text(config.checksum_text.val).val,
                        dl["asset"].val)
       IN  /\ log' = Append(log, [ev |-> "verified", ok |-> r.ok])
           /\ IF Passed(r)
              THEN pc' = "extract" /\ UNCHANGED result
              ELSE result' = Fail(r.err) /\ pc' = "done"
    /\ UNCHANGED <<config, retry_config, upstream, attempt, last_error, ret,
                   release, asset, dl, fs, env>>

\* extractor.rs: extract_and_install: the extractor's own download, then the
\* unpacking; mod.rs: install returns what it returned
Extract ==
    /\ pc = "extract"
    /\ \E resp \in asset_responses(asset.val) :
          LET out == download_asset_from(resp)
              got == [ev |-> "get", by |-> "extractor", leg |-> "asset",
                      name |-> asset.val, status |-> resp.status, out |-> out]
          IN  IF ~out.ok
              THEN /\ log' = Append(log, got)
                   /\ result' = Fail(out.err)
                   /\ UNCHANGED fs
              ELSE LET archive == create_extractor(asset.val) = "Archive"
                       r == IF archive
                            THEN extract_archive(out.val, config.binary_names, fs)
                            ELSE extract_raw_binary(out.val, config.binary_names, fs)
                   IN  /\ log' = log \o << got,
                                    [ev |-> "extract",
                                     fn |-> IF archive THEN archive_format(out.val)
                                            ELSE "extract_raw_binary",
                                     data |-> out.val, before |-> fs,
                                     temp |-> IF archive
                                              THEN extract_archive_body(
                                                      out.val, config.binary_names,
                                                      fs)[1].scratch
                                              ELSE {}] >>
                       /\ fs' = r[1]
                       /\ result' = Some(r[2])
    /\ pc' = "done"
    /\ UNCHANGED <<config, retry_config, upstream, attempt, last_error, ret,
                   release, asset, dl, env>>

\* ---- main.rs and error.rs: what the process reports

\* format!("{:?}", error) of an anyhow error: its message and, where the
\* error wraps another one, the chain of causes. The messages that stand for
\* an error of a library (connection error, io error, tar read error, the
\* parse errors) are rendered as they are named here.
DebugText(msg) ==
    CASE
         msg = "Checksum verification failed!" ->
            <<"C","h","e","c","k","s","u","m"," ","v","e","r","i","f","i","c","a","t","i","o","n"," ","f","a","i","l","e","d","!">>
      [] msg = "Failed to download asset: 404" ->
            <<"F","a","i","l","e","d"," ","t","o"," ","d","o","w","n","l","o","a","d"," ","a","s","s","e","t",":"," ","4","0","4"," ","N","o","t"," ","F","o","u","n","d">>
      [] msg = "GitHub: Not Found" ->
            <<"G","i","t","H","u","b",":"," ","N","o","t"," ","F","o","u","n","d">>
      [] msg = "Invalid checksum text format. Expected 'algorithm:hash'" ->
            <<"I","n","v","a","l","i","d"," ","c","h","e","c","k","s","u","m"," ","t","e","x","t"," ","f","o","r","m","a","t","."," ","E","x","p","e","c","t","e","d"," ","'","a","l","g","o","r","i","t","h","m",":","h","a","s","h","'">>
      [] msg = "Invalid filter pattern" ->
            <<"I","n","v","a","l","i","d"," ","f","i","l","t","e","r"," ","p","a","t","t","e","r","n","\n","\n","C","a","u","s","e","d"," ","b","y",":","\n"," "," "," "," ","r","e","g","e","x"," ","p","a","r","s","e"," ","e","r","r","o","r">>
      [] msg = "No asset matching filter pattern" ->
            <<"N","o"," ","a","s","s","e","t"," ","m","a","t","c","h","i","n","g"," ","f","i","l","t","e","r"," ","p","a","t","t","e","r","n">>
      [] msg = "No binary name specified for raw binary" ->
            <<"N","o"," ","b","i","n","a","r","y"," ","n","a","m","e"," ","s","p","e","c","i","f","i","e","d"," ","f","o","r"," ","r","a","w"," ","b","i","n","a","r","y">>
      [] msg = "No checksum file found" ->
            <<"N","o"," ","c","h","e","c","k","s","u","m"," ","f","i","l","e"," ","f","o","u","n","d">>
      [] msg = "No matching checksum found for asset" ->
            <<"N","o"," ","m","a","t","c","h","i","n","g"," ","c","h","e","c","k","s","u","m"," ","f","o","u","n","d"," ","f","o","r"," ","a","s","s","e","t">>
      [] msg = "No stable releases found" ->
            <<"N","o"," ","s","t","a","b","l","e"," ","r","e","l","e","a","s","e","s"," ","f","o","u","n","d">>
      [] msg = "No suitable asset found for this platform" ->
            <<"N","o"," ","s","u","i","t","a","b","l","e"," ","a","s","s","e","t"," ","f","o","u","n","d"," ","f","o","r"," ","t","h","i","s"," ","p","l","a","t","f","o","r","m">>
      [] msg = "No valid checksums found in file" ->
            <<"N","o"," ","v","a","l","i","d"," ","c","h","e","c","k","s","u","m","s"," ","f","o","u","n","d"," ","i","n"," ","f","i","l","e">>
      [] msg = "Unsupported algorithm or invalid hash length" ->
            <<"U","n","s","u","p","p","o","r","t","e","d"," ","a","l","g","o","r","i","t","h","m"," ","o","r"," ","i","n","v","a","l","i","d"," ","h","a","s","h"," ","l","e","n","g","t","h">>
      [] msg = "Unsupported archive format" ->
            <<"U","n","s","u","p","p","o","r","t","e","d"," ","a","r","c","h","i","v","e"," ","f","o","r","m","a","t">>
      [] msg = "Unsupported hash algorithm" ->
            <<"U","n","s","u","p","p","o","r","t","e","d"," ","h","a","s","h"," ","a","l","g","o","r","i","t","h","m">>
      [] msg = "connection error" ->
            <<"c","o","n","n","e","c","t","i","o","n"," ","e","r","r","o","r">>
      [] msg = "gh-release command is only supported on Debian/Ubuntu systems." ->
            <<"g","h","-","r","e","l","e","a","s","e"," ","c","o","m","m","a","n","d"," ","i","s"," ","o","n","l","y"," ","s","u","p","p","o","r","t","e","d"," ","o","n"," ","D","e","b","i","a","n","/","U","b","u","n","t","u"," ","s","y","s","t","e","m","s",".">>
      [] msg = "io error" ->
            <<"i","o"," ","e","r","r","o","r">>
      [] msg = "key parse error" ->
            <<"k","e","y"," ","p","a","r","s","e"," ","e","r","r","o","r">>
      [] msg = "signature parse error" ->
            <<"s","i","g","n","a","t","u","r","e"," ","p","a","r","s","e"," ","e","r","r","o","r">>
      [] msg = "signature verification failed" ->
            <<"s","i","g","n","a","t","u","r","e"," ","v","e","r","i","f","i","c","a","t","i","o","n"," ","f","a","i","l","e","d">>
      [] msg = "stream did not contain valid UTF-8" ->
            <<"s","t","r","e","a","m"," ","d","i","d"," ","n","o","t"," ","c","o","n","t","a","i","n"," ","v","a","l","i","d"," ","U","T","F","-","8">>
      [] msg = "tar read error" ->
            <<"t","a","r"," ","r","e","a","d"," ","e","r","r","o","r">>
      [] msg = "the argument cannot be used with" ->
            <<"t","h","e"," ","a","r","g","u","m","e","n","t"," ","c","a","n","n","o","t"," ","b","e"," ","u","s","e","d"," ","w","i","t","h">>

\* The texts an error chain can carry that the conversion looks for, and one
\* it does not look for.
Phrases ==
    { "GitHub", "Not Found", "not found", "Failed to pull OCI image",
      "Not authorized", "No matching", "filter", "No suitable asset found",
      "Permission denied", "Access denied", "No space left", "Network",
      "connection", "timeout", "Unsupported archive format" }

PhraseText(p) ==
    CASE
         p = "GitHub" ->
            <<"G","i","t","H","u","b">>
      [] p = "Not Found" ->
            <<"N","o","t"," ","F","o","u","n","d">>
      [] p = "not found" ->
            <<"n","o","t"," ","f","o","u","n","d">>
      [] p = "Failed to pull OCI image" ->
            <<"F","a","i","l","e","d"," ","t","o"," ","p","u","l","l"," ","O","C","I"," ","i","m","a","g","e">>
      [] p = "Not authorized" ->
            <<"N","o","t"," ","a","u","t","h","o","r","i","z","e","d">>
      [] p = "No matching" ->
            <<"N","o"," ","m","a","t","c","h","i","n","g">>
      [] p = "filter" ->
            <<"f","i","l","t","e","r">>
      [] p = "No suitable asset found" ->
            <<"N","o"," ","s","u","i","t","a","b","l","e"," ","a","s","s","e","t"," ","f","o","u","n","d">>
      [] p = "Permission denied" ->
            <<"P","e","r","m","i","s","s","i","o","n"," ","d","e","n","i","e","d">>
      [] p = "Access denied" ->
            <<"A","c","c","e","s","s"," ","d","e","n","i","e","d">>
      [] p = "No space left" ->
            <<"N","o"," ","s","p","a","c","e"," ","l","e","f","t">>
      [] p = "Network" ->
            <<"N","e","t","w","o","r","k">>
      [] p = "connection" ->
            <<"c","o","n","n","e","c","t","i","o","n">>
      [] p = "timeout" ->
            <<"t","i","m","e","o","u","t">>
      [] p = "Unsupported archive format" ->
            <<"U","n","s","u","p","p","o","r","t","e","d"," ","a","r","c","h","i","v","e"," ","f","o","r","m","a","t">>

\* format!("{:?}", error) of a chain of messages: the outermost message and
\* its causes
RECURSIVE ChainText(_)
ChainText(parts) ==
    IF Len(parts) = 1 THEN PhraseText(parts[1])
    ELSE PhraseText(parts[1]) \o <<":", " ">> \o ChainText(Tail(parts))

\* the Debug text of an error of the model: of its chain where the error
\* carries one, of its message otherwise
ErrorText(err) ==
    IF "parts" \in DOMAIN err THEN ChainText(err.parts) ELSE DebugText(err.msg)

Kinds ==
    {"RepositoryNotFound", "ContainerFeatureDownloadFailed", "NoMatchingAssets",
     "PermissionDenied", "InsufficientDiskSpace", "NetworkConnectionFailed",
     "CatchAll"}

FromReversed(full_error) ==
    IF \/ contains(full_error, <<"N","e","t","w","o","r","k">>)
       \/ contains(full_error, <<"c","o","n","n","e","c","t","i","o","n">>)
       \/ contains(full_error, <<"t","i","m","e","o","u","t">>)
    THEN "NetworkConnectionFailed"
    ELSE IF contains(full_error, <<"N","o"," ","s","p","a","c","e"," ","l","e","f","t">>)
    THEN "InsufficientDiskSpace"
    ELSE IF \/ contains(full_error, <<"P","e","r","m","i","s","s","i","o","n"," ","d","e","n","i","e","d">>)
            \/ contains(full_error, <<"A","c","c","e","s","s"," ","d","e","n","i","e","d">>)
    THEN "PermissionDenied"
    ELSE IF \/ contains(full_error, <<"N","o"," ","m","a","t","c","h","i","n","g">>)
            \/ contains(full_error, <<"f","i","l","t","e","r">>)
            \/ contains(full_error, <<"N","o"," ","s","u","i","t","a","b","l","e"," ","a","s","s","e","t"," ","f","o","u","n","d">>)
    THEN "NoMatchingAssets"
    ELSE IF \/ contains(full_error, <<"F","a","i","l","e","d"," ","t","o"," ","p","u","l","l"," ","O","C","I"," ","i","m","a","g","e">>)
            \/ contains(full_error, <<"N","o","t"," ","a","u","t","h","o","r","i","z","e","d">>)
    THEN "ContainerFeatureDownloadFailed"
    ELSE IF /\ contains(full_error, <<"G","i","t","H","u","b">>)
            /\ (contains(full_error, <<"N","o","t"," ","F","o","u","n","d">>) \/ contains(full_error, <<"n","o","t"," ","f","o","u","n","d">>))
    THEN "RepositoryNotFound"
    ELSE "CatchAll"

\* error.rs: impl From<anyhow::Error> for PicolayerError
From(full_error) ==
    IF /\ contains(full_error, <<"G","i","t","H","u","b">>)
       /\ (contains(full_error, <<"N","o","t"," ","F","o","u","n","d">>) \/ contains(full_error, <<"n","o","t"," ","f","o","u","n","d">>))
    THEN "RepositoryNotFound"
    ELSE IF \/ contains(full_error, <<"F","a","i","l","e","d"," ","t","o"," ","p","u","l","l"," ","O","C","I"," ","i","m","a","g","e">>)
            \/ contains(full_error, <<"N","o","t"," ","a","u","t","h","o","r","i","z","e","d">>)
    THEN "ContainerFeatureDownloadFailed"
    ELSE IF \/ contains(full_error, <<"N","o"," ","m","a","t","c","h","i","n","g">>)
            \/ contains(full_error, <<"f","i","l","t","e","r">>)
            \/ contains(full_error, <<"N","o"," ","s","u","i","t","a","b","l","e"," ","a","s","s","e","t"," ","f","o","u","n","d">>)
    THEN "NoMatchingAssets"
    ELSE IF \/ contains(full_error, <<"P","e","r","m","i","s","s","i","o","n"," ","d","e","n","i","e","d">>)
            \/ contains(full_error, <<"A","c","c","e","s","s"," ","d","e","n","i","e","d">>)
    THEN "PermissionDenied"
    ELSE IF contains(full_error, <<"N","o"," ","s","p","a","c","e"," ","l","e","f","t">>)
    THEN "InsufficientDiskSpace"
    ELSE IF \/ contains(full_error, <<"N","e","t","w","o","r","k">>)
            \/ contains(full_error, <<"c","o","n","n","e","c","t","i","o","n">>)
            \/ contains(full_error, <<"t","i","m","e","o","u","t">>)
    THEN "NetworkConnectionFailed"
    ELSE "CatchAll"

\* error.rs: impl Display for PicolayerError: the first line after "Error: ";
\* CatchAll prints the error itself
Header(kind) ==
    CASE kind = "RepositoryNotFound" -> "Repository not found or not accessible"
      [] kind = "ContainerFeatureDownloadFailed" -> "Failed to download container feature"
      [] kind = "NoMatchingAssets" -> "No matching release assets found"
      [] kind = "PermissionDenied" -> "Permission denied"
      [] kind = "InsufficientDiskSpace" -> "Insufficient disk space"
      [] kind = "NetworkConnectionFailed" -> "Network connection failed"
      [] OTHER -> "the error"

\* error.rs: Display of CatchAll: the line that follows the error, by what
\* std::env::var finds for RUST_BACKTRACE and PICOLAYER_DEBUG
Trailer(kind, rust_backtrace, picolayer_debug) ==
    IF kind # "CatchAll" THEN "advice"
    ELSE IF rust_backtrace \/ picolayer_debug THEN "Technical details:"
    ELSE "For technical details, set PICOLAYER_DEBUG=1"

\* main.rs: main. An error of run() is converted, printed and the process
\* exits with 1; the CatchAll kind prints the error itself.
MainExit ==
    /\ pc = "done"
    /\ pc' = "exited"
    /\ \E rust_backtrace \in BOOLEAN, picolayer_debug \in BOOLEAN :
          log' = Append(log,
                 IF result.val.ok
                 THEN [ev |-> "exit", code |-> 0, kind |-> "none", shown |-> "none",
                       header |-> "none", trailer |-> "none",
                       rust_backtrace |-> rust_backtrace,
                       picolayer_debug |-> picolayer_debug]
                 ELSE LET kind == From(ErrorText(result.val.err))
                      IN  [ev |-> "exit", code |-> 1, kind |-> kind,
                           shown |-> IF kind = "CatchAll"
                                     THEN result.val.err.msg ELSE kind,
                           header |-> Header(kind),
                           trailer |-> Trailer(kind, rust_backtrace, picolayer_debug),
                           rust_backtrace |-> rust_backtrace,
                           picolayer_debug |-> picolayer_debug])
    /\ UNCHANGED <<config, retry_config, upstream, attempt, last_error, ret,
                   release, asset, dl, fs, env, result>>

\* ----------------------------------------------------------- specifications


\* what the remote can hold: no release, a stable one, a prerelease ahead of
\* a stable one
Upstreams ==
    { <<>>,
      << [tag_name |-> "v1", prerelease |-> FALSE] >>,
      << [tag_name |-> "v2", prerelease |-> TRUE],
         [tag_name |-> "v1", prerelease |-> FALSE] >> }

DefaultConfig ==
    [binary_names |-> <<>>, version |-> "latest", filter |-> None,
     verify_checksum |-> FALSE, checksum_text |-> None, gpg_key |-> None,
     include_prerelease |-> FALSE]

\* retry_async under every RetryConfig, entered from fetch_release
InitRetry ==
    /\ pc = "fetch"
    /\ retry_config \in RetryConfigs
    /\ \E v \in {"latest", "v1"}, ip \in BOOLEAN :
          config = [DefaultConfig EXCEPT !.version = v, !.include_prerelease = ip]
    /\ upstream \in Upstreams
    /\ env = [debian_like |-> TRUE, arch |-> "x86_64", os |-> "linux"]
    /\ attempt = 0
    /\ last_error = None
    /\ ret = None
    /\ release = None
    /\ asset = None
    /\ dl = NoLegs
    /\ fs = EmptyFs
    /\ log = <<>>
    /\ result = None

\* the whole command, from the command line on
DefaultMaxRetries == 0

ToolChecksum == S_SHA256 \o <<":">> \o Repeat("a", Sha256HexLen)

LiteralKey == [how |-> "literal", form |-> "armored", id |-> "K1"]

Init ==
    /\ pc = "cli"
    /\ retry_config \in
          [max_retries : {DefaultMaxRetries, 1}, initial_delay_ms : {100},
           backoff_multiplier : {<<2, 1>>}]
    /\ \E names \in {<<>>, <<"tool">>, <<"tool", "extra">>},
          flt \in {None, Some(InvalidPattern), Some(Literal(S_LINUX))},
          vc \in BOOLEAN,
          ct \in {None, Some(ToolChecksum)},
          key \in {None, Some(LiteralKey)} :
          config = [DefaultConfig EXCEPT
                      !.binary_names = names, !.filter = flt,
                      !.verify_checksum = vc, !.checksum_text = ct,
                      !.gpg_key = key]
    /\ upstream \in {<<>>, << [tag_name |-> "v1", prerelease |-> FALSE] >>}
    /\ env \in [debian_like : BOOLEAN, arch : {"x86_64"}, os : {"linux"}]
    /\ attempt = 0
    /\ last_error = None
    /\ ret = None
    /\ release = None
    /\ asset = None
    /\ dl = NoLegs
    /\ fs = EmptyFs
    /\ log = <<>>
    /\ result = None

Next ==
    \/ CliRun
    \/ RetryOnce
    \/ RetryAttempt
    \/ RetrySleep
    \/ FetchReturn
    \/ Select
    \/ VerifyDispatch
    \/ \E l \in {"asset", "sig", "sums", "key"} : Download(l)
    \/ VerifyFinish
    \/ Extract

Spec == Init /\ [][Next]_vars

\* ---- fetch_release over the release lists the remote can return

Tags == {"v1", "v2", "v3"}

ReleaseLists ==
    UNION { {q \in [1..k -> [tag_name : Tags, prerelease : BOOLEAN]] :
                \A i, j \in 1..k : i # j => q[i].tag_name # q[j].tag_name} :
            k \in 0..MaxReleases }

InitFetch ==
    /\ pc = "fetch"
    /\ retry_config \in
          [max_retries : {DefaultMaxRetries, 1}, initial_delay_ms : {100},
           backoff_multiplier : {<<2, 1>>}]
    /\ \E v \in {"latest", "v1"}, ip \in BOOLEAN :
          config = [DefaultConfig EXCEPT !.version = v, !.include_prerelease = ip]
    /\ upstream \in ReleaseLists
    /\ env = [debian_like |-> TRUE, arch |-> "x86_64", os |-> "linux"]
    /\ attempt = 0
    /\ last_error = None
    /\ ret = None
    /\ release = None
    /\ asset = None
    /\ dl = NoLegs
    /\ fs = EmptyFs
    /\ log = <<>>
    /\ result = None

NextFetch ==
    \/ RetryOnce
    \/ RetryAttempt
    \/ RetrySleep
    \/ FetchReturn

SpecFetch == InitFetch /\ [][NextFetch]_vars

\* ---- the selection over asset lists, filters and architectures

\* the lists of at most n different names
AssetSeqs(names, n) ==
    UNION { {q \in [1..k -> names] : \A i, j \in 1..k : i # j => q[i] # q[j]} :
            k \in 0..n }

SelectorNames ==
    {N_ARCHIVE, N_RAW, N_WINDOWS, N_DARWIN, N_README, N_ARCHIVE_ASC}

Filters ==
    {None, Some(InvalidPattern), Some(Literal(S_LINUX)),
     Some(Literal(<<"a","m","d","6","4">>)), Some(Literal(<<".","z","i","p">>)), Some(Literal(<<"f","r","e","e","b","s","d">>))}

InitSelect ==
    /\ pc = "select"
    /\ retry_config = [max_retries |-> DefaultMaxRetries, initial_delay_ms |-> 100,
                       backoff_multiplier |-> <<2, 1>>]
    /\ \E flt \in Filters :
          config = [DefaultConfig EXCEPT !.binary_names = <<"tool">>, !.filter = flt]
    /\ upstream = << [tag_name |-> "v1", prerelease |-> FALSE] >>
    /\ env \in [debian_like : {TRUE}, arch : {"x86_64", "aarch64", "riscv64"},
                 os : {"linux"}]
    /\ attempt = 0
    /\ last_error = None
    /\ ret = Some(Ok(upstream))
    /\ log = << CallEvent(1, Ok(upstream)) >>
    /\ \E assets \in AssetSeqs(SelectorNames, MaxAssets) :
          release = Some([tag_name |-> "v1", prerelease |-> FALSE, assets |-> assets])
    /\ asset = None
    /\ dl = NoLegs
    /\ fs = EmptyFs
    /\ result = None

NextSelect ==
    \/ Select
    \/ MainExit

\* the platform selector over lists that hold the companions of an asset
CompanionNames ==
    {N_ARCHIVE, N_ARCHIVE_SHA256, N_ARCHIVE_ASC, N_RAW_SIG, N_WINDOWS, N_README}

InitPlatform ==
    /\ pc = "select"
    /\ retry_config = [max_retries |-> DefaultMaxRetries, initial_delay_ms |-> 100,
                       backoff_multiplier |-> <<2, 1>>]
    /\ config = [DefaultConfig EXCEPT !.binary_names = <<"tool">>]
    /\ upstream = << [tag_name |-> "v1", prerelease |-> FALSE] >>
    /\ env \in [debian_like : {TRUE}, arch : {"x86_64", "aarch64", "riscv64"},
                 os : {"linux"}]
    /\ attempt = 0
    /\ last_error = None
    /\ ret = Some(Ok(upstream))
    /\ log = << CallEvent(1, Ok(upstream)) >>
    /\ \E assets \in AssetSeqs(CompanionNames, MaxAssets) :
          release = Some([tag_name |-> "v1", prerelease |-> FALSE, assets |-> assets])
    /\ asset = None
    /\ dl = NoLegs
    /\ fs = EmptyFs
    /\ result = None

SpecPlatform == InitPlatform /\ [][NextSelect]_vars

SpecSelect == InitSelect /\ [][NextSelect]_vars

\* ---- the verifier and the extractor, entered after a fetch that succeeded

StableUpstream == << [tag_name |-> "v1", prerelease |-> FALSE] >>

UrlKey == [how |-> "url", form |-> "armored", id |-> "K1"]

VerifierNames ==
    {N_ARCHIVE, N_ARCHIVE_SHA256, N_ARCHIVE_ASC, N_CHECKSUMS, N_README}

\* the state FetchReturn leaves for the release `assets` belong to
AfterFetch(assets) ==
    /\ pc = "select"
    /\ upstream = StableUpstream
    /\ env = [debian_like |-> TRUE, arch |-> "x86_64", os |-> "linux"]
    /\ attempt = 0
    /\ last_error = None
    /\ ret = Some(Ok(StableUpstream))
    /\ log = << CallEvent(1, Ok(StableUpstream)) >>
    /\ release = Some([tag_name |-> "v1", prerelease |-> FALSE, assets |-> assets])
    /\ asset = None
    /\ dl = NoLegs
    /\ fs = EmptyFs
    /\ result = None

InitVerify ==
    /\ retry_config \in
          [max_retries : {DefaultMaxRetries, 1}, initial_delay_ms : {100},
           backoff_multiplier : {<<2, 1>>}]
    /\ \E vc \in BOOLEAN,
          ct \in {None, Some(ToolChecksum)},
          key \in {None, Some(LiteralKey), Some(UrlKey)} :
          /\ ~(vc /\ ct.some)
          /\ config = [DefaultConfig EXCEPT
                         !.binary_names = <<"tool">>,
                         !.verify_checksum = vc, !.checksum_text = ct,
                         !.gpg_key = key]
    /\ \E assets \in AssetSeqs(VerifierNames, MaxAssets) : AfterFetch(assets)

NextVerify ==
    \/ Select
    \/ VerifyDispatch
    \/ \E l \in {"asset", "sig", "sums", "key"} : Download(l)
    \/ VerifyFinish
    \/ Extract

SpecVerify == InitVerify /\ [][NextVerify]_vars

\* ---- the detached-signature path over the forms and sources of the key

GpgKeys ==
    [how : {"literal", "path", "url"}, form : {"armored", "binary"},
     id : {"K1", "K2"}]

InitSign ==
    /\ retry_config = [max_retries |-> DefaultMaxRetries, initial_delay_ms |-> 100,
                       backoff_multiplier |-> <<2, 1>>]
    /\ \E key \in GpgKeys :
          config = [DefaultConfig EXCEPT
                      !.binary_names = <<"tool">>, !.verify_checksum = TRUE,
                      !.gpg_key = Some(key)]
    /\ AfterFetch(<<N_ARCHIVE, N_ARCHIVE_ASC>>)

SpecSign == InitSign /\ [][NextVerify]_vars

\* ---- extraction alone: every way a name, its bytes and the requested
\* ---- binary names can meet, with no verification asked for

ExtractNames == {N_ARCHIVE, N_WINDOWS, N_TGZ, N_TXZ, N_TBZ, N_7Z, N_RAW}

\* cli/args.rs: normalize_package_list of --binary
BinaryLists ==
    { <<>>, <<"tool">>, <<"tool", "extra">>, <<"extra", "tool">>, <<"absent">> }

\* the install directory before the run: absent, empty, or holding a file
InstallDirs ==
    { EmptyFs,
      [exists |-> TRUE, files |-> {}, scratch |-> {}],
      [exists |-> TRUE, scratch |-> {},
       files |-> {[name |-> "old", kind |-> "file", bytes |-> "o", mode |-> "644"]}] }

\* the state Select and VerifyDispatch leave when the one asset of the
\* release is selected and no verification is asked for
InitExtract ==
    /\ pc = "extract"
    /\ retry_config = [max_retries |-> DefaultMaxRetries, initial_delay_ms |-> 100,
                       backoff_multiplier |-> <<2, 1>>]
    /\ \E names \in BinaryLists :
          config = [DefaultConfig EXCEPT !.binary_names = names]
    /\ upstream = StableUpstream
    /\ env = [debian_like |-> TRUE, arch |-> "x86_64", os |-> "linux"]
    /\ attempt = 0
    /\ last_error = None
    /\ ret = Some(Ok(StableUpstream))
    /\ log = << CallEvent(1, Ok(StableUpstream)) >>
    /\ \E name \in ExtractNames :
          /\ release = Some([tag_name |-> "v1", prerelease |-> FALSE,
                             assets |-> <<name>>])
          /\ select(config.filter, <<name>>) = Ok(name)
          /\ asset = Some(name)
    /\ dl = NoLegs
    /\ fs \in InstallDirs
    /\ result = None

NextExtract ==
    \/ Extract
    \/ MainExit

SpecExtract == InitExtract /\ [][NextExtract]_vars

\* ---- the report of a failed run, over the error chains of one or two
\* ---- messages

ErrorChains ==
    {<<p>> : p \in Phrases} \cup {<<p, q>> : p \in Phrases, q \in Phrases}

\* a run that has failed with such a chain
InitReport ==
    /\ pc = "done"
    /\ retry_config = [max_retries |-> DefaultMaxRetries, initial_delay_ms |-> 100,
                       backoff_multiplier |-> <<2, 1>>]
    /\ config = [DefaultConfig EXCEPT !.binary_names = <<"tool">>]
    /\ upstream = StableUpstream
    /\ env = [debian_like |-> TRUE, arch |-> "x86_64", os |-> "linux"]
    /\ attempt = 0
    /\ last_error = None
    /\ ret = None
    /\ log = << >>
    /\ release = None
    /\ asset = None
    /\ dl = NoLegs
    /\ fs = EmptyFs
    /\ \E parts \in ErrorChains :
          result = Fail([msg |-> "chain", call |-> 0, parts |-> parts])

NextReport == MainExit

SpecReport == InitReport /\ [][NextReport]_vars

\* ---- --checksum-text over a range of texts

Algorithms == { <<"s","h","a","2","5","6">>, <<"S","H","A","2","5","6">>, <<"s","h","a","5","1","2">>, <<"S","h","a","5","1","2">>, <<"m","d","5">>, <<>> }
DigestChars == {"a", "A", "z"}
DigestLens ==
    {0, Sha256HexLen - 1, Sha256HexLen, Sha256HexLen + 1, Sha512HexLen}
Paddings == {<<>>, <<" ">>}

ChecksumTexts ==
    { alg \o <<":">> \o pad \o Repeat(ch, n) \o pad :
        alg \in Algorithms, ch \in DigestChars, n \in DigestLens,
        pad \in Paddings }
    \cup { <<"i","n","v","a","l","i","d">>, <<>>, Repeat("a", Sha256HexLen),
           S_SHA256 \o <<":">> \o Repeat("a", Sha256HexLen - 2) \o <<":", "a">> }

InitParse ==
    /\ retry_config = [max_retries |-> DefaultMaxRetries, initial_delay_ms |-> 100,
                       backoff_multiplier |-> <<2, 1>>]
    /\ \E t \in ChecksumTexts :
          config = [DefaultConfig EXCEPT
                      !.binary_names = <<"tool">>, !.checksum_text = Some(t)]
    /\ AfterFetch(<<N_ARCHIVE>>)

SpecParse == InitParse /\ [][NextVerify]_vars

\* ---- --verify-checksum over a range of checksum files

InitSums ==
    /\ retry_config = [max_retries |-> DefaultMaxRetries, initial_delay_ms |-> 100,
                       backoff_multiplier |-> <<2, 1>>]
    /\ config = [DefaultConfig EXCEPT
                   !.binary_names = <<"tool">>, !.verify_checksum = TRUE]
    /\ AfterFetch(<<N_ARCHIVE, N_SHA256SUMS>>)

SpecSums == InitSums /\ [][NextVerify]_vars

NextRetry == RetryOnce \/ RetryAttempt \/ RetrySleep

SpecRetry == InitRetry /\ [][NextRetry]_vars

\* ------------------------------------------------------------------ claims

\* the history, by kind of event
Calls == SelectSeq(log, LAMBDA e : e.ev = "call")
Sleeps == SelectSeq(log, LAMBDA e : e.ev = "sleep")

\* C3: with max_retries = n >= 1, retry_async invokes the operation until its
\* first success or until n+1 invocations have failed: it has returned exactly
\* when the last invocation succeeded or was the (n+1)-th; a success is
\* returned as it is, with no invocation, warning or sleep after it; a
\* failure is returned only after n+1 failed invocations and is the error of
\* invocation n+1.
C3_RetryUntilSuccessOrExhausted ==
    retry_config.max_retries >= 1 =>
        LET n == retry_config.max_retries
            c == Calls
        IN  /\ Len(c) <= n + 1
            /\ \A i \in 1..Len(c) : c[i].k = i
            /\ \A i \in 1..(Len(c) - 1) : ~c[i].out.ok
            /\ ret.some <=> (c # <<>> /\ (c[Len(c)].out.ok \/ Len(c) = n + 1))
            /\ \A i \in 1..Len(log) :
                  (log[i].ev = "call" /\ log[i].out.ok) =>
                      /\ i = Len(log)
                      /\ ret = Some(log[i].out)
            /\ (ret.some /\ ~ret.val.ok) =>
                  /\ Len(c) = n + 1
                  /\ ret.val = c[n + 1].out
                  /\ ret.val.err.call = n + 1

\* C3 witness: max_retries = 2 on an operation that failed three times; the
\* third error is what came back.
C3_Witness ==
    /\ retry_config.max_retries = 2
    /\ Len(Calls) = 3
    /\ ret.some /\ ~ret.val.ok /\ ret.val.err.call = 3

\* C4: with max_retries = 0, retry_async invokes the operation exactly once,
\* never sleeps, emits neither warning, and returns the operation's own
\* result, success or error.
C4_ZeroRetriesRunsOnce ==
    retry_config.max_retries = 0 =>
        /\ Len(Calls) <= 1
        /\ pc # "sleep"
        /\ \A i \in 1..Len(log) :
              log[i].ev \notin {"sleep", "warn_retry", "warn_exhausted"}
        /\ ret.some <=> Len(Calls) = 1
        /\ ret.some => ret.val = Calls[1].out

\* C4 witness: one failed invocation, handed back as the result, nothing else
\* in the history.
C4_Witness ==
    /\ retry_config.max_retries = 0
    /\ ret.some /\ ~ret.val.ok
    /\ Len(log) = 1 /\ log[1].ev = "call"

\* where delays are slept: each sleep follows the warning of a failed
\* invocation that was not the last one allowed and is followed by the next
\* invocation; none before the first invocation, none after the last.
SleepsOnlyBetweenAttempts ==
    /\ \A i \in 1..Len(log) :
          log[i].ev = "sleep" =>
              /\ i >= 3
              /\ log[i - 1].ev = "warn_retry"
              /\ log[i - 2].ev = "call" /\ ~log[i - 2].out.ok
              /\ log[i - 2].k <= retry_config.max_retries
              /\ IF i = Len(log) THEN pc = "fetch" /\ ~ret.some
                 ELSE log[i + 1].ev = "call"
    /\ ret.some => Len(Sleeps) = Len(Calls) - 1
    /\ pc = "sleep" => Len(Sleeps) = Len(Calls) - 1

\* C5 as stated: the j-th delay slept (after the failed attempt of 0-based
\* index i = j-1) is exactly initial_delay * backoff_multiplier^i
\* milliseconds, and delays are slept only between two attempts.
C5_DelayIsExactProduct ==
    /\ \A j \in 1..Len(Sleeps) :
          Sleeps[j].ms * Pow(retry_config.backoff_multiplier[2], j - 1)
            = retry_config.initial_delay_ms
                * Pow(retry_config.backoff_multiplier[1], j - 1)
    /\ SleepsOnlyBetweenAttempts

\* C5 amended: the j-th delay slept is initial_delay * backoff_multiplier^i
\* (i = j-1) truncated toward zero to whole milliseconds, and delays are
\* slept only between two attempts.
C5_DelayIsTruncatedProduct ==
    /\ \A j \in 1..Len(Sleeps) :
          LET den == Pow(retry_config.backoff_multiplier[2], j - 1)
              num == Pow(retry_config.backoff_multiplier[1], j - 1)
              exact == retry_config.initial_delay_ms * num
          IN  /\ Sleeps[j].ms * den <= exact
              /\ exact < (Sleeps[j].ms + 1) * den
    /\ SleepsOnlyBetweenAttempts

\* C5 witness: max_retries = 2, 100 ms, multiplier 2.0, three failures: the
\* delays slept are 100 ms and then 200 ms.
C5_Witness ==
    /\ retry_config = [max_retries |-> 2, initial_delay_ms |-> 100,
                       backoff_multiplier |-> <<2, 1>>]
    /\ ret.some /\ ~ret.val.ok
    /\ [j \in 1..Len(Sleeps) |-> Sleeps[j].ms] = <<100, 200>>

\* ---- the pipeline

FetchEvents == {"call", "warn_retry", "sleep", "warn_exhausted"}

ByVerifier(e) ==
    \/ e.ev \in {"verify", "verified", "warn_no_key"}
    \/ e.ev \in {"get", "load_key"} /\ e.by = "verifier"

ByExtractor(e) == e.ev = "get" /\ e.by = "extractor"

StageOf(e) ==
    IF e.ev \in FetchEvents THEN 1 ELSE IF ByVerifier(e) THEN 3 ELSE 4

VerifierGets == SelectSeq(log, LAMBDA e : e.ev = "get" /\ e.by = "verifier")
ExtractorGets == SelectSeq(log, ByExtractor)
VerifyCalls == SelectSeq(log, LAMBDA e : e.ev = "verify")

VerificationActive == config.checksum_text.some \/ config.verify_checksum
Failed == result.some /\ ~result.val.ok
Succeeded == result.some /\ result.val.ok

VerificationPassed ==
    \E i \in DOMAIN log :
        \/ log[i].ev = "warn_no_key"
        \/ log[i].ev = "verified" /\ log[i].ok

VerificationFailedAt(i) ==
    \/ log[i].ev = "verify" /\ log[i].start.go = "fail"
    \/ log[i].ev \in {"get", "load_key"} /\ log[i].by = "verifier" /\ ~log[i].out.ok
    \/ log[i].ev = "verified" /\ ~log[i].ok

\* C1: install runs fetch, select, verify, extract in that order, each stage
\* starting only after the one before it returned success: the selection is
\* made only from a release that was fetched, the verifier runs only on a
\* selected asset, the extractor's download and every write to install_dir
\* come only after the selection and, where a verification is active, after
\* it passed; when the fetch, the selection or the verification fails, that
\* error is what install returns, nothing follows it, the extractor has
\* downloaded nothing and install_dir is untouched.
C1_StagesInOrder ==
    /\ \A i, j \in DOMAIN log : i < j => StageOf(log[i]) <= StageOf(log[j])
    /\ (release.some \/ asset.some \/ pc \in {"select", "verify", "join", "extract"})
          => (ret.some /\ ret.val.ok /\ release.some)
    /\ (pc \in {"verify", "join", "extract"}
            \/ \E i \in DOMAIN log : StageOf(log[i]) >= 3)
          => asset.some
    /\ (pc = "extract" \/ ExtractorGets # <<>> \/ fs # EmptyFs) =>
          /\ asset.some
          /\ VerificationActive => VerificationPassed
          /\ \A i \in DOMAIN log : ~VerificationFailedAt(i)
    /\ (ret.some /\ ~ret.val.ok) =>
          /\ pc \in {"fetched", "done"}
          /\ pc = "done" => result = Some(ret.val)
    /\ (pc = "done" /\ ret.some /\ ret.val.ok /\ ~release.some) => Failed
    /\ (pc = "done" /\ release.some /\ ~asset.some) =>
          result = Some(select(config.filter, release.val.assets))
    /\ \A i \in DOMAIN log :
          VerificationFailedAt(i) =>
              /\ i = Len(log)
              /\ pc = "done"
              /\ Failed
              /\ log[i].ev = "verify" => result.val.err = log[i].start.err
              /\ log[i].ev \in {"get", "load_key"} => result.val = log[i].out
    /\ pc = "done" => result.some

\* C1 witness: a checksum comparison that failed: install returned the error,
\* the extractor downloaded nothing and install_dir was not written.
C1_Witness ==
    /\ pc = "done"
    /\ Failed
    /\ \E i \in DOMAIN log : log[i].ev = "verified" /\ ~log[i].ok
    /\ ExtractorGets = <<>>
    /\ fs = EmptyFs

Installed(name) ==
    \E x \in fs.files : x.name = name /\ x.kind = "file" /\ x.mode = "755"

C6_VerifierDownloadsRetried ==
    \A i \in DOMAIN log :
        (pc = "done" /\ log[i].ev = "get" /\ log[i].by = "verifier" /\ ~log[i].out.ok) =>
            Cardinality({j \in DOMAIN log :
                            /\ log[j].ev = "get"
                            /\ log[j].by = "verifier"
                            /\ log[j].leg = log[i].leg})
                = retry_config.max_retries + 1

\* C7: exactly one verification mode is active per invocation: the verifier
\* is entered at most once, through verify_with_checksum_text when checksum
\* text is supplied and through verify_asset when only the verify flag is
\* set; checksum text together with the verify flag is rejected by the
\* command line before anything runs; with neither, no verification step
\* runs at all, whether or not a public key was supplied.
C7_OneVerificationMode ==
    /\ Len(VerifyCalls) <= 1
    /\ (config.checksum_text.some /\ config.verify_checksum) =>
          /\ pc \in {"cli", "done"}
          /\ pc = "done" => Failed
          /\ log = <<>>
          /\ fs = EmptyFs
    /\ \A i \in DOMAIN log :
          log[i].ev = "verify" =>
              /\ VerificationActive
              /\ log[i].fn = IF config.checksum_text.some
                             THEN "verify_with_checksum_text"
                             ELSE "verify_asset"
    /\ config.checksum_text.some => DOMAIN dl \subseteq {"asset"}
    /\ (VerificationActive /\ (pc \in {"join", "extract"} \/ ExtractorGets # <<>>))
          => Len(VerifyCalls) = 1
    /\ ~VerificationActive =>
          /\ dl = NoLegs
          /\ pc # "join"
          /\ \A i \in DOMAIN log : ~ByVerifier(log[i])

\* C7 witness: a run that succeeded with a public key but no verify flag, on
\* a release that carries a signature of the selected asset: nothing was
\* verified.
C7_Witness ==
    /\ pc = "done"
    /\ Succeeded
    /\ config.gpg_key.some
    /\ ~VerificationActive
    /\ find_signature_asset(release.val.assets, asset.val) # 0
    /\ \A i \in DOMAIN log : ~ByVerifier(log[i])

\* ---- verify_asset

InFileMode == ~config.checksum_text.some /\ config.verify_checksum
VerifierEntered == asset.some /\ pc # "verify"
SignatureListed == find_signature_asset(release.val.assets, asset.val) # 0
ChecksumFileListed == find_checksum_asset(release.val.assets, asset.val) # 0

\* C8: in checksum-file/signature mode, when the release lists neither a
\* signature of the selected asset nor a candidate checksum file, verify_asset
\* fails with "No checksum file found": install returns that error, nothing
\* is downloaded, nothing is reported verified and nothing is extracted.
C8_NoCompanionFails ==
    (InFileMode /\ VerifierEntered /\ ~SignatureListed /\ ~ChecksumFileListed) =>
        /\ pc = "done"
        /\ result = Fail(NoChecksumFile)
        /\ Len(log) = 2
        /\ log[2].ev = "verify" /\ log[2].start.go = "fail"
        /\ fs = EmptyFs

\* C8 witness: a release of two assets, neither a signature nor a checksum
\* file of the selected archive; the run ended with the error.
C8_Witness ==
    /\ InFileMode
    /\ VerifierEntered
    /\ Len(release.val.assets) = 2
    /\ ~SignatureListed /\ ~ChecksumFileListed
    /\ pc = "done"
    /\ result = Fail(NoChecksumFile)

\* C9: in checksum-file/signature mode, a signature asset ({asset}.asc or
\* {asset}.sig) takes precedence over the checksum-file path: no checksum
\* file is ever downloaded, even when one is listed; and when no public key
\* was supplied, verify_asset returns success with a warning, downloading and
\* checking nothing, and install goes on to the extraction.
C9_SignatureWithoutKeyPasses ==
    (InFileMode /\ VerifierEntered /\ SignatureListed) =>
        /\ "sums" \notin DOMAIN dl
        /\ \A i \in DOMAIN log : log[i].ev = "get" => log[i].leg # "sums"
        /\ Len(log) >= 2 /\ log[2].ev = "verify"
        /\ ~config.gpg_key.some =>
              /\ log[2].start.go = "unverified"
              /\ Len(log) >= 3 /\ log[3].ev = "warn_no_key"
              /\ dl = NoLegs
              /\ \A i \in DOMAIN log :
                    log[i].ev \in {"get", "load_key"} => log[i].by = "extractor"
              /\ \A i \in DOMAIN log : log[i].ev # "verified"
              /\ pc \in {"extract", "done"}
              /\ pc = "done" => Len(ExtractorGets) = 1

\* C9 witness: signature and checksum file both listed, no key: the run
\* succeeded after the warning.
C9_Witness ==
    /\ InFileMode
    /\ ~config.gpg_key.some
    /\ VerifierEntered
    /\ SignatureListed /\ ChecksumFileListed
    /\ pc = "done"
    /\ Succeeded
    /\ \E i \in DOMAIN log : log[i].ev = "warn_no_key"

\* ---- parse_checksum_text

HexChars ==
    {"0","1","2","3","4","5","6","7","8","9",
     "a","b","c","d","e","f","A","B","C","D","E","F"}

IsHex(s) == \A i \in DOMAIN s : s[i] \in HexChars

TextAlgorithm == SubSeq(config.checksum_text.val, 1, FirstColon(config.checksum_text.val) - 1)
TextDigest ==
    SubSeq(config.checksum_text.val, FirstColon(config.checksum_text.val) + 1,
           Len(config.checksum_text.val))

\* the shape of the text: an algorithm name (letter case aside), a ':' and a
\* digest (surrounding blanks aside) of that algorithm's length
WellFormedText ==
    /\ FirstColon(config.checksum_text.val) # 0
    /\ \/ /\ to_lowercase(TextAlgorithm) = S_SHA256
          /\ Len(trim(TextDigest)) = Sha256HexLen
       \/ /\ to_lowercase(TextAlgorithm) = S_SHA512
          /\ Len(trim(TextDigest)) = Sha512HexLen

InvalidChecksumFormat ==
    {"Invalid checksum text format. Expected 'algorithm:hash'",
     "Unsupported algorithm or invalid hash length"}

TextParsed ==
    /\ Len(log) >= 2
    /\ log[2].ev = "verify"
    /\ log[2].start.go = "join"
    /\ log[2].start.parsed = <<to_lowercase(TextAlgorithm), trim(TextDigest)>>

TextRejected ==
    /\ pc = "done"
    /\ Failed
    /\ result.val.err.msg \in InvalidChecksumFormat
    /\ Len(log) = 2
    /\ log[2].ev = "verify" /\ log[2].start.go = "fail"
    /\ fs = EmptyFs

\* C10 as stated: the text parses only as sha256 with a 64-character hex
\* digest or sha512 with a 128-character hex digest; any other algorithm,
\* any other length, a digest that is not hex, or a text without ':' fails
\* with InvalidChecksumFormat before any download.
C10_OnlyHexDigestsParse ==
    (config.checksum_text.some /\ VerifierEntered) =>
        IF WellFormedText /\ IsHex(trim(TextDigest))
        THEN TextParsed
        ELSE TextRejected

\* C10 amended: the text parses exactly when its algorithm name, letter case
\* aside, is sha256 and its digest, surrounding blanks aside, is 64
\* characters long, or sha512 and 128 characters long, and the parse returns
\* (lower-cased algorithm, trimmed digest); the characters of the digest are
\* not examined, so a digest of the right length that is not hex parses, the
\* asset is downloaded, and the comparison then fails; any other algorithm,
\* any other length, or a text without ':' fails with InvalidChecksumFormat
\* before any download.
C10_RightLengthDigestsParse ==
    (config.checksum_text.some /\ VerifierEntered) =>
        IF WellFormedText
        THEN /\ TextParsed
             /\ ~IsHex(trim(TextDigest)) =>
                   \A i \in DOMAIN log :
                       log[i].ev = "verified" =>
                           /\ ~log[i].ok
                           /\ Failed
                           /\ result.val.err.msg = "Checksum verification failed!"
        ELSE TextRejected

\* C10 witness: "sha256:" and 64 times "z": parsed, the asset downloaded, and
\* the comparison failed.
C10_Witness ==
    /\ config.checksum_text = Some(S_SHA256 \o <<":">> \o Repeat("z", Sha256HexLen))
    /\ pc = "done"
    /\ Len(VerifierGets) = 1 /\ VerifierGets[1].out.ok
    /\ \E i \in DOMAIN log : log[i].ev = "verified" /\ ~log[i].ok

\* ---- verify_with_checksum_text

\* the digest of the downloaded bytes under the algorithm the text names
DigestOfDownload ==
    Repeat(VerifierGets[1].out.val.id,
           IF log[2].start.parsed[1] = S_SHA256 THEN Sha256HexLen ELSE Sha512HexLen)

\* C11: inline-checksum verification succeeds if and only if the digest of
\* the downloaded asset bytes under the named algorithm equals the expected
\* digest, letter case aside; otherwise it fails with "Checksum verification
\* failed!", an error that carries both the expected and the computed
\* digest, and the extraction does not run.
C11_InlineChecksumDecides ==
    config.checksum_text.some =>
        /\ \A i \in DOMAIN log :
              log[i].ev = "verified" =>
                  /\ Len(VerifierGets) = 1 /\ VerifierGets[1].out.ok
                  /\ log[i].ok <=>
                        to_lowercase(DigestOfDownload)
                            = to_lowercase(log[2].start.parsed[2])
                  /\ log[i].ok => (pc \in {"extract", "done"} /\ (Failed => ExtractorGets # <<>>))
                  /\ ~log[i].ok =>
                        /\ pc = "done"
                        /\ Failed
                        /\ result.val.err.msg = "Checksum verification failed!"
                        /\ result.val.err.expected = log[2].start.parsed[2]
                        /\ result.val.err.computed = DigestOfDownload
                        /\ ExtractorGets = <<>>
                        /\ fs = EmptyFs
        /\ (pc = "extract" \/ ExtractorGets # <<>>) =>
              \E i \in DOMAIN log : log[i].ev = "verified" /\ log[i].ok

\* C11 witness: an expected digest in upper case against the lower-case
\* digest of the download: verified, and the run succeeded.
C11_Witness ==
    /\ config.checksum_text = Some(S_SHA256 \o <<":">> \o Repeat("A", Sha256HexLen))
    /\ Len(VerifierGets) = 1
    /\ VerifierGets[1].out = Ok(GZ_TOOL)
    /\ \E i \in DOMAIN log : log[i].ev = "verified" /\ log[i].ok
    /\ pc = "done"
    /\ Succeeded

\* ---- find_checksum_asset

\* the candidate names of the selected asset, in priority order
Candidates == build_checksum_patterns(asset.val)

Listed(pattern) ==
    \E k \in DOMAIN release.val.assets :
        eq_ignore_ascii_case(release.val.assets[k], pattern)

\* C12 as stated: the checksum file that is downloaded is the listed
\* candidate of the highest priority ({name}.sha256, .sha256sum, .sha512,
\* .sha512sum for the full name, then for the stripped name, then the
\* generic names in their order), whatever the order of the asset list.
C12_HighestPriorityCandidateUsed ==
    \A i \in DOMAIN log :
        (log[i].ev = "get" /\ log[i].leg = "sums") =>
            \E p \in DOMAIN Candidates :
                /\ eq_ignore_ascii_case(log[i].name, Candidates[p])
                /\ \A q \in 1..(p - 1) : ~Listed(Candidates[q])

\* ---- verify_gpg_signature

SignatureMode == InFileMode /\ VerifierEntered /\ SignatureListed /\ config.gpg_key.some

\* C13 as stated: signature and key material are each accepted armored or
\* binary, the key given literally, as a path or as a URL: loading the key
\* fails only when its URL cannot be fetched, and the verification succeeds
\* exactly when the signature was made over the asset bytes by that key.
C13_AllFormsAccepted ==
    SignatureMode =>
        /\ \A i \in DOMAIN log :
              log[i].ev = "load_key" =>
                  \/ log[i].out.ok
                  \/ config.gpg_key.val.how = "url" /\ log[i].out.err.msg = "connection error"
        /\ \A i \in DOMAIN log :
              log[i].ev = "verified" =>
                  (log[i].ok <=> /\ dl["sig"].val.over = dl["asset"].val.id
                                 /\ dl["sig"].val.by = config.gpg_key.val.id)

\* ---- fetch_release

StableOnly == config.version = "latest" /\ ~config.include_prerelease
FetchReturned == ret.some /\ pc # "fetched"

\* C14: for version "latest" with prereleases excluded, fetch_release
\* returns the first release, in the order of the list that was returned,
\* whose prerelease flag is false, and fails with "No stable releases found"
\* when the list holds none; it never returns a prerelease.
C14_FirstStableRelease ==
    (StableOnly /\ FetchReturned /\ ret.val.ok) =>
        LET list == ret.val.val
        IN  IF \E i \in DOMAIN list : ~list[i].prerelease
            THEN /\ release.some
                 /\ ~release.val.prerelease
                 /\ \E i \in DOMAIN list :
                       /\ list[i].tag_name = release.val.tag_name
                       /\ list[i].prerelease = release.val.prerelease
                       /\ \A j \in 1..(i - 1) : list[j].prerelease
                 /\ pc = "select"
            ELSE /\ ~release.some
                 /\ pc = "done"
                 /\ result = Fail([msg |-> "No stable releases found", call |-> 0])

\* C14 witness: two prereleases ahead of a stable release: the third of the
\* list is the one returned.
C14_Witness ==
    /\ StableOnly
    /\ Len(upstream) = 3
    /\ upstream[1].prerelease /\ upstream[2].prerelease /\ ~upstream[3].prerelease
    /\ release.some
    /\ release.val.tag_name = upstream[3].tag_name

\* ---- select

Selected == release.some /\ pc # "select"
Matches(name) == contains(name, config.filter.val.lit)

\* C15: with an explicit filter that is a valid pattern, the selector
\* returns the first asset in list order whose name matches it: no asset
\* before the selected one matches, whatever matches after it; when no name
\* matches it fails with "No asset matching filter pattern".
C15_FilterTakesFirstMatch ==
    (Selected /\ config.filter.some /\ config.filter.val.valid) =>
        LET assets == release.val.assets
        IN  IF \E i \in DOMAIN assets : Matches(assets[i])
            THEN /\ asset.some
                 /\ \E i \in DOMAIN assets :
                       /\ assets[i] = asset.val
                       /\ Matches(assets[i])
                       /\ \A j \in 1..(i - 1) : ~Matches(assets[j])
            ELSE /\ ~asset.some
                 /\ pc \in {"done", "exited"}
                 /\ result = Fail([msg |-> "No asset matching filter pattern",
                                   call |-> 0])

\* C15 witness: three assets, the last two of which match the filter: the
\* second is selected.
C15_Witness ==
    /\ Selected
    /\ config.filter.some /\ config.filter.val.valid
    /\ Len(release.val.assets) = 3
    /\ ~Matches(release.val.assets[1])
    /\ Matches(release.val.assets[2])
    /\ Matches(release.val.assets[3])
    /\ asset = Some(release.val.assets[2])

Exits == SelectSeq(log, LAMBDA e : e.ev = "exit")

\* C16 as stated: a filter that is not a valid pattern is reported as a kind
\* of its own: a valid filter that matches no asset is reported as
\* NoMatchingAssets, and an invalid filter is never reported as that kind.
C16_InvalidFilterIsItsOwnKind ==
    (config.filter.some /\ Exits # <<>> /\ ~asset.some) =>
        IF config.filter.val.valid
        THEN Exits[1].kind = "NoMatchingAssets"
        ELSE Exits[1].kind # "NoMatchingAssets"

\* an archive or a platform-tagged raw binary
InstallableType(name) == is_archive(to_lowercase(name)) \/ is_platform_binary(name)

\* matches the pattern of the running architecture and of the running OS,
\* and is of an installable type
Qualifies(name) ==
    /\ get_arch_regex(env.arch).some
    /\ get_os_regex(env.os).some
    /\ is_match(get_arch_regex(env.arch).val, name)
    /\ is_match(get_os_regex(env.os).val, name)
    /\ InstallableType(name)

\* C17: without a filter the selector returns the first asset in list order
\* that matches the architecture's and the OS's pattern and is an archive or
\* a platform-tagged raw binary (on x86_64/linux tool-linux-amd64.tar.gz
\* qualifies and tool-windows-amd64.zip does not); only when none qualifies,
\* the first asset that is an archive or a platform-tagged raw binary; and
\* when there is none of these either it fails with "No suitable asset found
\* for this platform".
C17_PlatformThenAnyArchive ==
    (Selected /\ ~config.filter.some) =>
        LET assets == release.val.assets
        IN  /\ (env.arch = "x86_64" /\ env.os = "linux") =>
                  (Qualifies(N_ARCHIVE) /\ ~Qualifies(N_WINDOWS))
            /\ IF \E i \in DOMAIN assets : Qualifies(assets[i])
               THEN \E i \in DOMAIN assets :
                       /\ asset = Some(assets[i])
                       /\ Qualifies(assets[i])
                       /\ \A j \in 1..(i - 1) : ~Qualifies(assets[j])
               ELSE IF \E i \in DOMAIN assets : InstallableType(assets[i])
               THEN \E i \in DOMAIN assets :
                       /\ asset = Some(assets[i])
                       /\ InstallableType(assets[i])
                       /\ \A j \in 1..(i - 1) : ~InstallableType(assets[j])
               ELSE /\ ~asset.some
                    /\ pc \in {"done", "exited"}
                    /\ result = Fail([msg |-> "No suitable asset found for this platform",
                                      call |-> 0])

\* C17 witness: on x86_64/linux, the Windows zip listed ahead of the Linux
\* archive: the Linux archive is selected.
C17_Witness ==
    /\ Selected
    /\ ~config.filter.some
    /\ env.arch = "x86_64"
    /\ release.val.assets = <<N_README, N_WINDOWS, N_ARCHIVE>>
    /\ asset = Some(N_ARCHIVE)

\* ---- C18, C19, C20: the extractor

\* the extractor's downloads that brought a body, with the unpacking that
\* followed each
Unpacked == {i \in DOMAIN log : log[i].ev = "extract"}

ArchiveNamed(name) == is_archive(to_lowercase(name))

StartsWith(bytes, magic) ==
    Len(bytes) >= Len(magic) /\ SubSeq(bytes, 1, Len(magic)) = magic

\* C18: for an asset with an archive extension the leading bytes alone pick
\* the path: 1F 8B the gzip-tar path, FD 37 7A 58 5A 00 the xz-tar path, and
\* every other beginning (zip, bzip2, 7z, data shorter than the magic) ends
\* the run with "Unsupported archive format" and the install directory as
\* it was.
C18_LeadingBytesDecide ==
    \A i \in Unpacked :
        ArchiveNamed(log[i - 1].name) =>
            LET bytes == log[i].data.head
            IN  /\ StartsWith(bytes, <<31, 139>>) <=> log[i].fn = "extract_tar_gz"
                /\ StartsWith(bytes, <<253, 55, 122, 88, 90, 0>>)
                      <=> log[i].fn = "extract_tar_xz"
                /\ log[i].fn \in {"extract_tar_gz", "extract_tar_xz", "bail"}
                /\ log[i].fn = "bail" =>
                      /\ Failed
                      /\ result.val.err.msg = "Unsupported archive format"
                      /\ fs = log[i].before

\* a 7z body under a .7z name, refused with nothing written
C18_Witness ==
    /\ \E i \in Unpacked :
          /\ log[i - 1].name = N_7Z
          /\ log[i].data = SEVENZ_BODY
          /\ log[i].fn = "bail"
    /\ Failed
    /\ result.val.err.msg = "Unsupported archive format"
    /\ fs = EmptyFs

\* C19: for an asset without an archive extension the downloaded bytes go
\* unchanged to the one file install_dir/{first requested name}, executable,
\* in an install directory that then exists; the other requested names are
\* not written; with no requested name the run fails with "No binary name
\* specified for raw binary" and no file is written.
C19_RawBinaryToFirstName ==
    \A i \in Unpacked :
        ~ArchiveNamed(log[i - 1].name) =>
            /\ log[i].fn = "extract_raw_binary"
            /\ IF config.binary_names = <<>>
               THEN /\ Failed
                    /\ result.val.err.msg = "No binary name specified for raw binary"
                    /\ fs.files = log[i].before.files
               ELSE LET first == config.binary_names[1]
                    IN  /\ Succeeded
                        /\ fs.exists
                        /\ fs.files =
                              {x \in log[i].before.files : x.name # first}
                                  \cup {[name |-> first, kind |-> "file",
                                         bytes |-> log[i].data.id, mode |-> "755"]}

\* two names requested, the raw bytes written under the first one only, in
\* a directory that was absent
C19_Witness ==
    /\ \E i \in Unpacked :
          /\ log[i - 1].name = N_RAW
          /\ log[i].before = EmptyFs
          /\ log[i].data = RAW_BODY
    /\ config.binary_names = <<"tool", "extra">>
    /\ Succeeded
    /\ fs = [exists |-> TRUE, scratch |-> {},
             files |-> {[name |-> "tool", kind |-> "file", bytes |-> RAW_BODY.id,
                         mode |-> "755"]}]

\* the requested names that are the base filename of some entry of the
\* archive
NamesInArchive(data) ==
    {n \in {config.binary_names[k] : k \in DOMAIN config.binary_names} :
        \E e \in DOMAIN data.entries : data.entries[e].base = n}

WrittenBy(i) == fs.files \ log[i].before.files

\* C20: after a successful archive extraction the files written to the
\* install directory are exactly the requested names that are the base
\* filename of some entry of the archive, each a file with mode 755; an entry
\* with another base filename is not written, and a requested name in no
\* entry gives no error and no file.
C20_ExactlyRequestedEntriesWritten ==
    \A i \in Unpacked :
        (log[i].fn \in {"extract_tar_gz", "extract_tar_xz"} /\ Succeeded) =>
            /\ {x.name : x \in WrittenBy(i)} = NamesInArchive(log[i].data)
            /\ \A x \in WrittenBy(i) : x.kind = "file" /\ x.mode = "755"

\* ---- C21: non-success responses

\* the requests of the run that were answered, with a status that is not 2xx
Refused ==
    {i \in DOMAIN log :
        /\ log[i].ev \in {"get", "load_key"}
        /\ log[i].status # 0
        /\ ~is_success(log[i].status)}

\* C21: every fetch of a remote byte stream (asset, checksum file,
\* signature, key from a URL) that is answered with a non-success status
\* fails with "Failed to download asset", so the body of such a response is
\* never taken as data.
C21_NonSuccessFailsDownload ==
    \A i \in Refused :
        /\ ~log[i].out.ok
        /\ log[i].out.err.msg = "Failed to download asset: 404"

\* ---- C22: the report of a failed run

Says(parts, p) == \E i \in DOMAIN parts : parts[i] = p

RuleOrder ==
    << "RepositoryNotFound", "ContainerFeatureDownloadFailed", "NoMatchingAssets",
       "PermissionDenied", "InsufficientDiskSpace", "NetworkConnectionFailed" >>

RuleMatches(kind, parts) ==
    CASE kind = "RepositoryNotFound" ->
            /\ Says(parts, "GitHub")
            /\ (Says(parts, "Not Found") \/ Says(parts, "not found"))
      [] kind = "ContainerFeatureDownloadFailed" ->
            Says(parts, "Failed to pull OCI image") \/ Says(parts, "Not authorized")
      [] kind = "NoMatchingAssets" ->
            \/ Says(parts, "No matching")
            \/ Says(parts, "filter")
            \/ Says(parts, "No suitable asset found")
      [] kind = "PermissionDenied" ->
            Says(parts, "Permission denied") \/ Says(parts, "Access denied")
      [] kind = "InsufficientDiskSpace" -> Says(parts, "No space left")
      [] kind = "NetworkConnectionFailed" ->
            \/ Says(parts, "Network")
            \/ Says(parts, "connection")
            \/ Says(parts, "timeout")

\* the first rule, in the order of the rules, that the chain matches
FirstRule(parts) ==
    LET hits == {i \in DOMAIN RuleOrder : RuleMatches(RuleOrder[i], parts)}
    IN  IF hits = {} THEN "CatchAll"
        ELSE RuleOrder[CHOOSE i \in hits : \A j \in hits : i <= j]

DebugHint == "For technical details, set PICOLAYER_DEBUG=1"

\* C22: a failed run exits with a non-zero code and one report; the report
\* is that of the first rule, in the fixed order, that the error text
\* matches; a chain that mentions GitHub and "Not Found" or "not found" is
\* reported as "Repository not found or not accessible"; and the hint to set
\* PICOLAYER_DEBUG is printed exactly for an unclassified error when neither
\* RUST_BACKTRACE nor PICOLAYER_DEBUG is set.
C22_FirstMatchingRuleReported ==
    (Failed /\ "parts" \in DOMAIN result.val.err /\ pc = "exited") =>
        LET parts == result.val.err.parts
        IN  /\ Len(Exits) = 1
            /\ Exits[1].code = 1
            /\ Exits[1].kind = FirstRule(parts)
            /\ Exits[1].header = Header(FirstRule(parts))
            /\ (Says(parts, "GitHub")
                   /\ (Says(parts, "Not Found") \/ Says(parts, "not found")))
                  => Exits[1].header = "Repository not found or not accessible"
            /\ Exits[1].trailer = DebugHint
                  <=> /\ FirstRule(parts) = "CatchAll"
                      /\ ~Exits[1].rust_backtrace
                      /\ ~Exits[1].picolayer_debug

\* a chain that matches the third and the sixth rule, reported by the third,
\* without the hint
C22_Witness ==
    /\ pc = "exited"
    /\ Failed
    /\ "parts" \in DOMAIN result.val.err
    /\ result.val.err.parts = <<"connection", "No matching">>
    /\ Exits[1].kind = "NoMatchingAssets"
    /\ Exits[1].header = "No matching release assets found"
    /\ Exits[1].trailer # DebugHint
    /\ ~Exits[1].rust_backtrace
    /\ ~Exits[1].picolayer_debug

\* ---- C23: the asset's bytes

\* the requests for the selected asset's bytes
AssetGets == {i \in DOMAIN log : log[i].ev = "get" /\ log[i].leg = "asset"}

\* C23: in one run the selected asset's bytes are requested at most once,
\* and the bytes that are unpacked are the bytes the verifier received.
C23_AssetFetchedOnce ==
    /\ Cardinality(AssetGets) <= 1
    /\ \A i \in AssetGets, j \in Unpacked :
          (log[i].by = "verifier" /\ log[i].out.ok) => log[j].data = log[i].out.val

\* ---- C24, C25: the checksum file

\* what the verifier's request of a leg brought
VerifierGot(leg) ==
    log[CHOOSE i \in DOMAIN log :
            log[i].ev = "get" /\ log[i].by = "verifier" /\ log[i].leg = leg].out.val

FileVerified ==
    {i \in DOMAIN log : log[i].ev = "verified" /\ InFileMode}

\* C24: with the checksum file parsed, the asset's full name is looked up
\* first and its name without the compression suffix second; the first of
\* the two that has an entry decides: a digest equal to the computed one,
\* letter case aside, passes, an unequal one fails with "Checksum
\* verification failed!" whatever the other name's entry says; with no entry
\* under either name the verification fails with "No matching checksum
\* found for asset".
C24_FullNameThenStrippedName ==
    \A i \in FileVerified :
        LET parsed == parse_checksum_file(VerifierGot("sums").lines)
            full == checksums_get(parsed.val, N_ARCHIVE)
            stripped == checksums_get(parsed.val, N_RAW)
            first == IF full.some THEN full ELSE stripped
        IN  (asset.val = N_ARCHIVE /\ parsed.ok) =>
                IF ~first.some
                THEN /\ Failed
                     /\ result.val.err.msg = "No matching checksum found for asset"
                ELSE IF eq_ignore_ascii_case(
                           compute_hash(VerifierGot("asset"), first.val.algorithm).val,
                           first.val.hash)
                THEN log[i].ok
                ELSE /\ Failed
                     /\ result.val.err.msg = "Checksum verification failed!"

\* the full name has another digest, the stripped name the right one: the
\* full name decides and the verification fails
C24_Witness ==
    /\ FileVerified # {}
    /\ asset = Some(N_ARCHIVE)
    /\ VerifierGot("asset") = GZ_TOOL
    /\ VerifierGot("sums").said =
          <<Entry("plain", N_ARCHIVE, Repeat("f", Sha256HexLen)),
            Entry("plain", N_RAW, Repeat("a", Sha256HexLen))>>
    /\ Failed
    /\ result.val.err.msg = "Checksum verification failed!"

\* the lines of a checksum file that give a digest for a file
EntryLines(said) ==
    SelectSeq(said, LAMBDA d : d.form \in {"colon", "plain", "star"})

AlgorithmByLength(hash) ==
    IF Len(hash) = 64 THEN S_SHA256
    ELSE IF Len(hash) = 128 THEN S_SHA512
    ELSE S_SHA256

\* C25: parsing a checksum file passes over blank lines and lines that
\* start with '#', and makes of every `filename: hash`, `hash  filename` and
\* `hash *filename` line one entry filename -> (algorithm, hash), where the
\* algorithm follows from the length of the digest (64 sha256, 128 sha512,
\* otherwise sha256); N such lines that name N different files give N
\* entries.
C25_ChecksumFileParsed ==
    \A i \in FileVerified :
        LET file == VerifierGot("sums")
            wrote == EntryLines(file.said)
            parsed == parse_checksum_file(file.lines)
            names == {wrote[k].file : k \in DOMAIN wrote}
        IN  wrote # <<>> =>
              /\ parsed.ok
              /\ Len(parsed.val) = Len(wrote)
              /\ \A k \in DOMAIN wrote :
                    parsed.val[k] = [filename |-> wrote[k].file,
                                     algorithm |-> AlgorithmByLength(wrote[k].hash),
                                     hash |-> wrote[k].hash]
              /\ {parsed.val[k].filename : k \in DOMAIN parsed.val} = names
              /\ \A n \in {N_ARCHIVE, N_RAW, N_WINDOWS} \ names :
                    ~checksums_get(parsed.val, n).some

\* a file of four lines, one of them blank, naming three files in the three
\* layouts, one of them with a sha512 digest: three entries
C25_Witness ==
    /\ FileVerified # {}
    /\ Len(VerifierGot("sums").said) = 4
    /\ Len(parse_checksum_file(VerifierGot("sums").lines).val) = 3
    /\ checksums_get(parse_checksum_file(VerifierGot("sums").lines).val, N_RAW)
          = Some([filename |-> N_RAW, algorithm |-> S_SHA512,
                  hash |-> Repeat("a", Sha512HexLen)])

\* ---- C26: the three downloads of the signature path

\* the verifier's event for a leg of the join
LegEvents(leg) ==
    {i \in DOMAIN log :
        /\ log[i].ev \in {"get", "load_key"}
        /\ log[i].by = "verifier"
        /\ log[i].leg = leg}

SignatureChecked == {i \in DOMAIN log : log[i].ev = "verified"}

\* a leg that did not bring its data: its call returned an error, or, for
\* the asset and the signature, the request was refused
LegFailed(i) ==
    \/ ~log[i].out.ok
    \/ log[i].leg \in {"asset", "sig"} /\ ~is_success(log[i].status)

ArchiveUnpacked ==
    {i \in Unpacked : log[i].fn \in {"extract_tar_gz", "extract_tar_xz", "bail"}}

AsXz(data) == [data EXCEPT !.head = XzMagic]

\* C28: for the same tar contents and the same requested names the gzip
\* path leaves the install directory, and returns, as the xz path would.
C28_GzipAndXzPathsAgree ==
    \A i \in Unpacked :
        log[i].fn = "extract_tar_gz" =>
            LET xz == extract_archive(AsXz(log[i].data), config.binary_names,
                                      log[i].before)
            IN  /\ fs = xz[1]
                /\ result.val.ok = xz[2].ok

\* ---- C29: what the platform selector leaves out

IsSignatureFile(name) ==
    \/ ends_with(to_lowercase(name), <<".","s","i","g">>)
    \/ ends_with(to_lowercase(name), <<".","a","s","c">>)

\* the names the rule that applies looks for: the platform's when some asset
\* has them, any installable type otherwise
Eligible(assets, name) ==
    IF \E i \in DOMAIN assets : Qualifies(assets[i])
    THEN Qualifies(name)
    ELSE InstallableType(name)

\* C29: without a filter the selected asset never has a name that, in lower
\* case, ends in .sig or .asc; a checksum companion such as
\* tool-linux-amd64.tar.gz.sha256 is taken for a platform-tagged raw binary
\* and is the selected asset whenever no other eligible asset is listed
\* before it.
C29_SignaturesExcludedChecksumsNot ==
    (Selected /\ ~config.filter.some) =>
        LET assets == release.val.assets
        IN  /\ asset.some => ~IsSignatureFile(asset.val)
            /\ is_platform_binary(N_ARCHIVE_SHA256)
            /\ \A k \in DOMAIN assets :
                  (/\ assets[k] = N_ARCHIVE_SHA256
                   /\ \A j \in 1..(k - 1) : ~Eligible(assets, assets[j]))
                      => asset = Some(N_ARCHIVE_SHA256)

\* the signature, the checksum companion and the archive in this order: the
\* checksum companion is selected
C29_Witness ==
    /\ Selected
    /\ ~config.filter.some
    /\ env.arch = "x86_64"
    /\ release.val.assets = <<N_RAW_SIG, N_ARCHIVE_SHA256, N_ARCHIVE>>
    /\ asset = Some(N_ARCHIVE_SHA256)

\* ---- C30: a failed extraction

Requested(e) == \E k \in DOMAIN config.binary_names : config.binary_names[k] = e.base

\* the entry of a tar the gzip path stops at: the first that is damaged or
\* that is requested and meets, under its name, an entry of the other type
\* installed before it; 0 when there is none
StopsAt(entries) ==
    LET stops(k) ==
            \/ entries[k].kind = "corrupt"
            \/ /\ Requested(entries[k])
               /\ \E j \in 1..(k - 1) :
                     /\ entries[j].base = entries[k].base
                     /\ entries[j].kind # entries[k].kind
    IN  IF \E k \in DOMAIN entries : stops(k)
        THEN CHOOSE k \in DOMAIN entries : stops(k) /\ \A j \in 1..(k - 1) : ~stops(j)
        ELSE 0

\* C30: a failed extraction is not undone. The raw path has made the
\* install directory when it fails for want of a binary name; the gzip path
\* has made it too, and every requested entry read before the entry it
\* failed at stays installed; what the directory held before stays as well.
C30_FailedExtractionNotRolledBack ==
    \A i \in Unpacked :
        Failed =>
            /\ log[i].fn = "extract_raw_binary" =>
                  /\ config.binary_names = <<>>
                  /\ fs.exists
                  /\ fs.files = log[i].before.files
            /\ log[i].fn = "extract_tar_gz" =>
                  LET entries == log[i].data.entries
                      stop == StopsAt(entries)
                  IN  /\ stop # 0
                      /\ fs.exists
                      /\ log[i].before.files \subseteq fs.files
                      /\ \A j \in 1..(stop - 1) :
                            Requested(entries[j]) =>
                                \E x \in fs.files :
                                    /\ x.name = entries[j].base
                                    /\ x.kind = entries[j].kind
                                    /\ x.mode = "755"

\* two names requested before a directory that held a file: the first entry
\* is installed, the second is damaged, and the run fails with both files
\* in the directory
C30_Witness ==
    /\ \E i \in Unpacked :
          /\ log[i].fn = "extract_tar_gz"
          /\ log[i].data = GZ_DAMAGED
          /\ log[i].before.files # {}
    /\ config.binary_names = <<"extra", "tool">>
    /\ Failed
    /\ {x.name : x \in fs.files} = {"old", "tool"}

====
